---- MODULE Spec2Model ----
(***************************************************************************)
(* A model of the fingerprint diff-and-consensus engine of                 *)
(* sdm-pack-fingerprints: ballot aggregation (voteResults), the extraction *)
(* runner (fingerprintRunner), the target store read through               *)
(* fpPreferences / fpPreference and written through the                    *)
(* SetTargetFingerprint and DeleteTargetFingerprint commands, the          *)
(* promise/channel bridge under transport failures, the default            *)
(* target-compliance handler of a push, the dispatch of a push to the      *)
(* registered FingerprintHandlers, the diff rendered by renderDiff, the    *)
(* identity hash (consistentHash), the pusher of applied fingerprints, the *)
(* commands that set a target from a given or the latest fingerprint, and  *)
(* the message of the default messageMaker.                                *)
(*                                                                         *)
(* JavaScript values are modelled as follows.  A value that may or may not *)
(* be an object is wrapped: [js |-> "object", obj |-> r] for an object     *)
(* with the fields of record r, [js |-> "undefined"] otherwise.  An        *)
(* optional value is a sequence of length 0 (nil / undefined) or 1.  A     *)
(* JSON text is [text |-> "json", val |-> v] when it parses to v and       *)
(* [text |-> "garbage"] when JSON.parse throws on it.                      *)
(***************************************************************************)
EXTENDS Naturals, Sequences, FiniteSets, TLC

VARIABLES
    votes,      \* the Vote list of one push, in the order the votes were collected
    ballot,     \* the VoteResults of the push: <<>> before the tally, <<result>> after
    nExtractors,\* fingerprintRunner: the number of registered extractors
    outcomes,   \* fingerprintRunner: what each extractor called so far did, in call order
    fps,        \* fingerprintRunner: the local fps array
    runState,   \* fingerprintRunner: "idle", "running", "returned" or "raised"
    store,      \* the team's preference blob as the transport holds it: its entries
    cmd,        \* the command each collaborator is running, and how far it got
    writeSeq,   \* history: the collaborators whose mutate was applied, in that order
    registrations, \* the names selected by the fingerprint registrations
    pushFps,    \* the fingerprints of the push under evaluation
    handled,    \* how many of pushFps the handlers have been dispatched on
    handlers,   \* the FingerprintHandlers given to pushImpactHandler, in that order
    diffs,      \* the Diffs of the push: the incoming fingerprint and the prior one, if any
    dpos,       \* how many dispatch candidates (fingerprint, path, handler) were gone through
    calls,      \* history: the handler functions invoked, in that order
    bpos,       \* how many of the handlers were gone through for their ballot
    ballots,    \* history: the ballot functions invoked, with the votes they received
    prior,      \* diff: the target fingerprint compared against, if any
    incoming,   \* diff: the incoming fingerprint, if any
    delta,      \* diff: <<>> before the comparison, <<the data of the Diff>> after
    rendered,   \* diff: <<>> before renderDiff, <<its result>> after
    hashes,     \* history: the shas computed so far, with who computed each and of what
    started,    \* fingerprintRunner: the extractors whose extract was called, in call order
    pending,    \* fingerprintRunner: the extractor whose promise is awaited, 0 when none is
    pregs,      \* pusher: the registrations, in registration order
    ppos,       \* pusher: how many registrations the loop has gone through
    applied,    \* history: the registrations whose apply was invoked, in that order
    failures,   \* history: the registrations a failure message was sent for
    generic,    \* history: how often fingerprints.applyFingerprint was invoked
    pstate,     \* pusher: idle, running, done or rejected
    bpromise,   \* bridge: the promise handed to from-promise
    bsource,    \* bridge: the channel handed to chan->promise
    bputs,      \* history: the values from-promise put on its channel
    bclosed,    \* bridge: from-promise closed its channel
    bsettled,   \* history: how the promise of chan->promise was settled
    message     \* the message the messageMaker sent: none, or its attachments

voteVars == <<votes, ballot>>
runVars == <<nExtractors, outcomes, fps, runState>>
storeVars == <<store, cmd, writeSeq>>
pushVars == <<registrations, pushFps, handled>>
dispatchVars == <<handlers, diffs, dpos, calls, bpos, ballots>>
diffVars == <<prior, incoming, delta, rendered>>
hashVars == <<hashes>>
awaitVars == <<started, pending>>
applyVars == <<pregs, ppos, applied, failures, generic, pstate>>
bridgeVars == <<bpromise, bsource, bputs, bclosed, bsettled>>
messageVars == <<message>>
vars == <<votes, ballot, nExtractors, outcomes, fps, runState, store, cmd, writeSeq,
          registrations, pushFps, handled, handlers, diffs, dpos, calls, bpos, ballots,
          prior, incoming, delta, rendered,
          hashes,
          started, pending,
          pregs, ppos, applied, failures, generic, pstate,
          bpromise, bsource, bputs, bclosed, bsettled,
          message>>

(***************************************************************************)
(* Bounds of the model.                                                    *)
(***************************************************************************)
MaxVotes == 3
MaxExtractors == 3
MaxExtracted == 2
NumClients == 2
MaxPushFps == 2
MaxData == 2
MaxHashes == 2
MaxRegistrations == 3

(***************************************************************************)
(* Fingerprints.                                                           *)
(***************************************************************************)
Names == {"a", "b"}
Versions == {"1.0.0", "1.3.0"}

\* The data of a fingerprint as the hash reads it: its elements, in order.
RECURSIVE ednString(_)
ednString(data) == IF data = <<>> THEN "" ELSE "/" \o Head(data) \o ednString(Tail(data))

\* A hash that also takes in how many hashes were computed before it.
consistentHash_calledAt(edn) ==
    (IF hashes = <<>> THEN "uuid5" ELSE "uuid5+") \o ednString(edn)

\* consistentHash: the sha is a function of the data alone (a uuid5 of the edn hash).
consistentHash(edn) == "uuid5" \o ednString(edn)

\* The identity hash of the data carried by a fingerprint.
shaOf(fp) == consistentHash(fp.data)

\* An FP: name, sha and data, the sha computed from the data.
MkFP(n, v) == [name |-> n, sha |-> consistentHash(<<n, v>>), data |-> <<n, v>>]

FPs == {MkFP(n, v) : n \in Names, v \in Versions}

(***************************************************************************)
(* Votes.                                                                  *)
(***************************************************************************)
Nil == "nil"

Obj(r) == [js |-> "object", obj |-> r]
Undefined == [js |-> "undefined"]

\* (map? v) after js->clj
IsMap(v) == v.js = "object"

\* (:k m) on a map: the value, or nil when the key is absent
Get(m, k) == IF k \in DOMAIN m THEN m[k] ELSE Nil

\* cljs truthiness: everything but nil and false
Truthy(x) == x # Nil

ForVote(fp) == Obj([decision |-> "For", name |-> fp.name, fingerprint |-> fp])
AbstainVote(fp) == Obj([decision |-> "Abstain", name |-> fp.name, fingerprint |-> fp])
AgainstVote(fp, target) ==
    Obj([decision |-> "Against", name |-> fp.name, fingerprint |-> fp, fpTarget |-> target])

\* setNewTargetFingerprint: after sending its message it returns {abstain: true}
setNewTargetFingerprint == Obj([abstain |-> TRUE])

\* The votes a handler can return: the decided votes, the decision-less vote of the
\* coordinate handlers, and a value that is no object (a diffHandler is Promise<any>).
VoteUniverse ==
    {ForVote(fp) : fp \in FPs} \cup {AbstainVote(fp) : fp \in FPs}
    \cup UNION {{AgainstVote(fp, t) : t \in {x \in FPs : x.name = fp.name /\ x.sha # fp.sha}}
                : fp \in FPs}
    \cup {setNewTargetFingerprint, Undefined}

(***************************************************************************)
(* voteResults.                                                            *)
(***************************************************************************)
\* A variant of DecidedVotes that stops at the first vote it would drop
\* (take-while where the code filters).
DecidedVotes_takeWhile(vs) ==
    LET keep(v) == IsMap(v) /\ Truthy(Get(v.obj, "decision"))
        n == IF \A i \in 1..Len(vs) : keep(vs[i]) THEN Len(vs)
             ELSE (CHOOSE i \in 1..Len(vs) :
                      ~keep(vs[i]) /\ \A j \in 1..(i-1) : keep(vs[j])) - 1
    IN  [i \in 1..n |-> vs[i].obj]

\* vs: the votes that are maps with a truthy :decision, as maps, in input order
DecidedVotes(vs) ==
    LET keep(v) == IsMap(v) /\ Truthy(Get(v.obj, "decision"))
        kept == SelectSeq(vs, keep)
    IN  [i \in 1..Len(kept) |-> kept[i].obj]

WithDecision(vs, d) ==
    LET is(v) == Get(v, "decision") = d IN SelectSeq(vs, is)

NamesOf(vs) == [i \in 1..Len(vs) |-> Get(vs[i], "name")]

\* A variant of failedOf that lets each vote overwrite the verdict: only the last counts.
failedOf_lastOnly(vs) == vs # <<>> /\ Get(vs[Len(vs)], "decision") = "Against"

\* (boolean (some #(= "Against" (:decision %)) vs))
failedOf(vs) == \E i \in 1..Len(vs) : Get(vs[i], "decision") = "Against"

failedFpsOf(vs) == NamesOf(WithDecision(vs, "Against"))

\* A variant of successFpsOf that takes every vote that is not Against as a success.
successFpsOf_notAgainst(vs) ==
    LET ok(v) == Get(v, "decision") # "Against" IN NamesOf(SelectSeq(vs, ok))

successFpsOf(vs) == NamesOf(WithDecision(vs, "For"))

\* A variant of failedVotesOf that takes every vote that is not For as a failure.
failedVotesOf_notFor(vs) ==
    LET bad(v) == Get(v, "decision") # "For" IN SelectSeq(vs, bad)

\* A variant of failedVotesOf that keeps one vote of each kind: a vote equal to an
\* earlier one is dropped.
failedVotesOf_distinct(vs) ==
    LET against == WithDecision(vs, "Against")
        firsts == {i \in 1..Len(against) : \A j \in 1..(i-1) : against[j] # against[i]}
        nth(k) == CHOOSE i \in firsts : Cardinality({j \in firsts : j < i}) = k - 1
    IN  [k \in 1..Cardinality(firsts) |-> against[nth(k)]]

failedVotesOf(vs) == WithDecision(vs, "Against")

voteResults(vlist) ==
    LET vs == DecidedVotes(vlist)
    IN  [failed      |-> failedOf(vs),
         failedFps   |-> failedFpsOf(vs),
         successFps  |-> successFpsOf(vs),
         failedVotes |-> failedVotesOf(vs)]

(***************************************************************************)
(* JSON texts.                                                             *)
(***************************************************************************)
JsNull == [js |-> "null"]

\* JSON.stringify / json/clj->json of a value
Stringify(v) == [text |-> "json", val |-> v]

\* A text JSON.parse throws on.
Garbage == [text |-> "garbage"]

Parses(t) == t.text = "json"

\* JSON.parse / json/json->clj: the value of a text that parses
Parse(t) == t.val

(***************************************************************************)
(* The target store: queryPreferences, mutatePreference, fpPreferences,    *)
(* fpPreference.                                                           *)
(***************************************************************************)
Clients == 1..NumClients

UserId(c) == <<"user", c>>

\* queryPreferences: the preferences of the team as the store holds them now
\* (QueryNoCacheOptions: no cached copy is served).
queryPreferences(st) == st

\* A variant of mutatePreference that merges: the entries of the stored value whose
\* names the written value does not hold are kept.
mutatePreference_merge(st, prefsAsJson) ==
    LET kept(e) == \A i \in 1..Len(prefsAsJson) : prefsAsJson[i].name # e.name
    IN  SelectSeq(st, kept) \o prefsAsJson

\* A variant of mutatePreference whose write is acknowledged and not applied.
mutatePreference_ignored(st, prefsAsJson) == st

\* mutatePreference: setTeamPreference replaces the whole stored value by the value
\* written; nothing of the previous value is read, compared or kept.
mutatePreference(st, prefsAsJson) == prefsAsJson

\* (try (json/json->clj value ...) (catch :default x (log/error ...))): the parsed
\* value, or nil (here JsNull) when the value is not JSON
parseEntry(e) == IF Parses(e.value) THEN Parse(e.value) ELSE JsNull

\* A variant of HasShape that asks for a name only.
HasShape_nameOnly(x) == IsMap(x) /\ "name" \in DOMAIN x.obj

\* (and x (contains? x :name) (contains? x :sha) (contains? x :data))
HasShape(x) ==
    /\ IsMap(x)
    /\ "name" \in DOMAIN x.obj
    /\ "sha" \in DOMAIN x.obj
    /\ "data" \in DOMAIN x.obj

\* A variant of fpPreferences that stops at the first entry it would skip.
fpPreferences_takeWhile(query) ==
    LET parsed == [i \in 1..Len(query) |-> parseEntry(query[i])]
        n == IF \A i \in 1..Len(parsed) : HasShape(parsed[i]) THEN Len(parsed)
             ELSE (CHOOSE i \in 1..Len(parsed) :
                      ~HasShape(parsed[i]) /\ \A j \in 1..(i-1) : HasShape(parsed[j])) - 1
    IN  [i \in 1..n |-> parsed[i].obj]

\* fpPreferences: the stored entries that parse and have name, sha and data
fpPreferences(query) ==
    LET parsed == [i \in 1..Len(query) |-> parseEntry(query[i])]
        valid == SelectSeq(parsed, HasShape)
    IN  [i \in 1..Len(valid) |-> valid[i].obj]

\* A variant of fpPreference that forgets to compare the name.
fpPreference_anyName(query, fpName) ==
    LET prefs == fpPreferences(query)
    IN  IF prefs = <<>> THEN <<>> ELSE <<prefs[1]>>

\* fpPreference: (some (fn [x] (if (= fp-name (:name x)) x))): the first valid entry
\* of that name, or nothing
fpPreference(query, fpName) ==
    LET prefs == fpPreferences(query)
        hits == {i \in 1..Len(prefs) : prefs[i].name = fpName}
    IN  IF hits = {} THEN <<>>
        ELSE <<prefs[CHOOSE i \in hits : \A j \in hits : i <= j]>>

\* getTarget(name): query, then fpPreference
getTarget(st, fpName) == fpPreference(queryPreferences(st), fpName)

\* { user: { id }, ...JSON.parse(cli.parameters.fp) }: the fields of the parsed
\* fingerprint, and a user field unless the fingerprint has one of its own
WithUser(parsed, uid) ==
    [k \in DOMAIN parsed \cup {"user"} |->
        IF k \in DOMAIN parsed THEN parsed[k] ELSE [id |-> uid]]

\* The blob with the entry of that name replaced by the new value (added if there
\* was none): decode, upsert the name key, re-encode.
Upsert(blob, fpName, text) ==
    LET other(e) == e.name # fpName
    IN  SelectSeq(blob, other) \o <<[name |-> fpName, value |-> text]>>

\* What the blob can hold under one name when the model starts: a target, a text that
\* is not JSON, an object that is no fingerprint, an object with a name only.
EntryValues(n) ==
    {Stringify(Obj(MkFP(n, "1.0.0"))), Garbage,
     Stringify(Obj([garbage |-> TRUE])), Stringify(Obj([name |-> n]))}

OptEntry(n) == {<<>>} \cup {<<[name |-> n, value |-> t]>> : t \in EntryValues(n)}

StoreInits == {ea \o eb : ea \in OptEntry("a"), eb \in OptEntry("b")}

\* The fp parameter of SetTargetFingerprint: the JSON of a fingerprint (as the
\* "Set Target" button of setNewTargetFingerprint sends it), or a text that is not JSON.
SetTargetParams == {Stringify(Obj(fp)) : fp \in FPs} \cup {Garbage}

IdleCmd == [kind |-> "none", pc |-> "idle", param |-> Garbage, fp |-> <<>>, snap |-> <<>>,
            readAt |-> 0, result |-> <<>>, shown |-> <<>>,
            queries |-> 0, mutates |-> 0, error |-> <<>>, rejected |-> <<>>,
            branchParam |-> <<>>, branch |-> "", prompts |-> 0]

StoreIdle ==
    /\ store = <<>>
    /\ cmd = [c \in Clients |-> IdleCmd]
    /\ writeSeq = <<>>

StoreInit ==
    /\ store \in StoreInits
    /\ cmd = [c \in Clients |-> IdleCmd]
    /\ writeSeq = <<>>

notStoreVars == <<voteVars, runVars, pushVars, dispatchVars, diffVars, hashVars, awaitVars, applyVars, bridgeVars, messageVars>>

\* SetTargetFingerprint is invoked: the parameter is parsed and the user added; a
\* parameter that is not JSON makes JSON.parse throw and the command fail at once.
SetTargetInvoke(c) ==
    /\ cmd[c].pc = "idle"
    /\ \E param \in SetTargetParams :
          cmd' = [cmd EXCEPT ![c] =
                    IF Parses(param)
                    THEN [IdleCmd EXCEPT !.kind = "set", !.pc = "invoked", !.param = param,
                                         !.fp = <<WithUser(Parse(param).obj, UserId(c))>>]
                    ELSE [IdleCmd EXCEPT !.kind = "set", !.pc = "failed"]]
    /\ UNCHANGED <<store, writeSeq, notStoreVars>>

\* setTargetFingerprint, first half: the query is answered with the blob as it is now.
SetTargetQuery(c) ==
    /\ cmd[c].kind = "set"
    /\ cmd[c].pc = "invoked"
    /\ cmd' = [cmd EXCEPT ![c].pc = "queried",
                          ![c].queries = @ + 1,
                          ![c].snap = queryPreferences(store),
                          ![c].readAt = Len(writeSeq)]
    /\ UNCHANGED <<store, writeSeq, notStoreVars>>

\* setTargetFingerprint, second half: the blob that was read, with the new target
\* upserted, is written back whole.
SetTargetMutate(c) ==
    /\ cmd[c].kind = "set"
    /\ cmd[c].pc = "queried"
    /\ store' = mutatePreference(store,
                    Upsert(cmd[c].snap, cmd[c].fp[1].name, Stringify(Obj(cmd[c].fp[1]))))
    /\ writeSeq' = Append(writeSeq, c)
    /\ cmd' = [cmd EXCEPT ![c].pc = "written", ![c].mutates = @ + 1]
    /\ UNCHANGED notStoreVars

\* The await of setTargetFingerprint returned (the mutate was acknowledged, or the
\* promise of the bridge was accepted after a transport failure) and askAboutBroadcast
\* sends its message: the command ends with success.
SetTargetBroadcast(c) ==
    /\ cmd[c].kind = "set"
    /\ cmd[c].pc \in {"written", "resolved"}
    /\ cmd' = [cmd EXCEPT ![c].pc = "done", ![c].prompts = @ + 1]
    /\ UNCHANGED <<store, writeSeq, notStoreVars>>

\* The blob without the entry of that name: decode, remove the name key, re-encode.
Remove(blob, fpName) ==
    LET other(e) == e.name # fpName
    IN  SelectSeq(blob, other)

\* DeleteTargetFingerprint is invoked with a name and has responded; deleteGoalFingerprint,
\* first half: the query is answered with the blob as it is now.
DeleteTargetQuery(c) ==
    /\ cmd[c].pc = "idle"
    /\ \E n \in Names :
          cmd' = [cmd EXCEPT ![c] =
                    [IdleCmd EXCEPT !.kind = "delete", !.pc = "queried", !.queries = 1,
                                    !.fp = <<[name |-> n]>>,
                                    !.snap = queryPreferences(store),
                                    !.readAt = Len(writeSeq)]]
    /\ UNCHANGED <<store, writeSeq, notStoreVars>>

\* deleteGoalFingerprint, second half: the blob that was read, without the entry of the
\* name, is written back whole; the command ends.
DeleteTargetMutate(c) ==
    /\ cmd[c].kind = "delete"
    /\ cmd[c].pc = "queried"
    /\ store' = mutatePreference(store, Remove(cmd[c].snap, cmd[c].fp[1].name))
    /\ writeSeq' = Append(writeSeq, c)
    /\ cmd' = [cmd EXCEPT ![c].pc = "done", ![c].mutates = @ + 1]
    /\ UNCHANGED notStoreVars

\* The names in the order comparator("name") puts them.
NameOrder == <<"a", "b">>

\* .sort(comparator("name")): the targets by name, those of one name in their order
RECURSIVE sortFrom(_, _)
sortFrom(targets, i) ==
    IF i > Len(NameOrder) THEN <<>>
    ELSE SelectSeq(targets, LAMBDA x : x.name = NameOrder[i]) \o sortFrom(targets, i + 1)

sortByName(targets) == sortFrom(targets, 1)

\* listFingerprintTargets: query, then fpPreferences on the answer; the message offers
\* the targets sorted by name.
ListTargets(c) ==
    /\ cmd[c].pc = "idle"
    /\ cmd' = [cmd EXCEPT ![c] =
                 [IdleCmd EXCEPT !.kind = "list", !.pc = "done", !.queries = 1,
                                 !.snap = queryPreferences(store),
                                 !.readAt = Len(writeSeq),
                                 !.result = fpPreferences(queryPreferences(store)),
                                 !.shown = sortByName(fpPreferences(queryPreferences(store)))]]
    /\ UNCHANGED <<store, writeSeq, notStoreVars>>

\* listOneFingerprintTarget: query, then fpPreference on the answer.
ListOneTarget(c) ==
    /\ cmd[c].pc = "idle"
    /\ \E n \in Names :
          cmd' = [cmd EXCEPT ![c] =
                    [IdleCmd EXCEPT !.kind = "get", !.pc = "done", !.queries = 1,
                                    !.fp = <<[name |-> n]>>,
                                    !.snap = queryPreferences(store),
                                    !.readAt = Len(writeSeq),
                                    !.result = fpPreference(queryPreferences(store), n)]]
    /\ UNCHANGED <<store, writeSeq, notStoreVars>>

(***************************************************************************)
(* Transport failures: atomist.promise (from-promise, chan->promise) and   *)
(* the commands when a query or a mutate rejects.                          *)
(***************************************************************************)
\* The error a failing transport call rejects with.
TransportError == [js |-> "error", message |-> "transport"]

Fulfilled(v) == [state |-> "fulfilled", value |-> v]
Rejected(e) == [state |-> "rejected", reason |-> e]

\* The keyword :done
Done == [js |-> "keyword", name |-> "done"]

\* What (if v ...) takes for true: all but nil and false
ChanTruthy(v) == v.js \notin {"null", "undefined", "false"}

\* from-promise: the value put on the channel: the result of a fulfilled promise (:done
\* for a falsy one), and the map {:failure error} for a rejected promise
fromPromise(promise) ==
    IF promise.state = "fulfilled"
    THEN (IF ChanTruthy(promise.value) THEN promise.value ELSE Done)
    ELSE Obj([failure |-> promise.reason])

\* A variant of chan->promise that rejects with the error of a {:failure error} value.
chanToPromise_unwrap(v) ==
    IF IsMap(v) /\ "failure" \in DOMAIN v.obj THEN Rejected(v.obj.failure)
    ELSE IF ChanTruthy(v) THEN Fulfilled(v)
    ELSE Rejected(v)

\* chan->promise: (if v (accept v) (reject v)) on the value taken from the channel
chanToPromise(v) == IF ChanTruthy(v) THEN Fulfilled(v) ELSE Rejected(v)

\* What the operation puts on its result channel after from-promise handed it the
\* value of a failed call: that value, forwarded, or nothing (the channel closes and
\* the take yields nil).
AfterFailure(v) == {v, JsNull}

\* A command whose call through the bridge failed: the promise of the operation is
\* accepted or rejected as chan->promise decides on the value of the result channel.
BridgeFailure(c, proms) ==
    \E v \in AfterFailure(fromPromise(Rejected(TransportError))) :
        LET p == chanToPromise(v)
        IN  cmd' = [cmd EXCEPT ![c] =
                      [proms EXCEPT !.error = <<TransportError>>,
                                    !.pc = IF p.state = "fulfilled" THEN "resolved" ELSE "failed",
                                    !.rejected = IF p.state = "fulfilled" THEN <<>>
                                                 ELSE <<p.reason>>]]

\* setTargetFingerprint: the query rejects.
SetTargetQueryFails(c) ==
    /\ cmd[c].kind = "set"
    /\ cmd[c].pc = "invoked"
    /\ BridgeFailure(c, [cmd[c] EXCEPT !.queries = @ + 1])
    /\ UNCHANGED <<store, writeSeq, notStoreVars>>

\* setTargetFingerprint: the mutate rejects; the stored value stays as it was.
SetTargetMutateFails(c) ==
    /\ cmd[c].kind = "set"
    /\ cmd[c].pc = "queried"
    /\ BridgeFailure(c, [cmd[c] EXCEPT !.mutates = @ + 1])
    /\ UNCHANGED <<store, writeSeq, notStoreVars>>

\* deleteGoalFingerprint: the query rejects.
DeleteTargetQueryFails(c) ==
    /\ cmd[c].pc = "idle"
    /\ \E n \in Names :
          BridgeFailure(c, [IdleCmd EXCEPT !.kind = "delete", !.fp = <<[name |-> n]>>,
                                           !.queries = 1])
    /\ UNCHANGED <<store, writeSeq, notStoreVars>>

\* deleteGoalFingerprint: the mutate rejects; the stored value stays as it was.
DeleteTargetMutateFails(c) ==
    /\ cmd[c].kind = "delete"
    /\ cmd[c].pc = "queried"
    /\ BridgeFailure(c, [cmd[c] EXCEPT !.mutates = @ + 1])
    /\ UNCHANGED <<store, writeSeq, notStoreVars>>

\* A listener that awaits the query itself: the rejection leaves the listener as it is.
AwaitFailure(c, proms) ==
    cmd' = [cmd EXCEPT ![c] = [proms EXCEPT !.error = <<TransportError>>,
                                            !.pc = "failed",
                                            !.rejected = <<TransportError>>]]

\* listFingerprintTargets: the awaited query rejects.
ListTargetsFails(c) ==
    /\ cmd[c].pc = "idle"
    /\ AwaitFailure(c, [IdleCmd EXCEPT !.kind = "list", !.queries = 1])
    /\ UNCHANGED <<store, writeSeq, notStoreVars>>

\* listOneFingerprintTarget: the awaited query rejects.
ListOneTargetFails(c) ==
    /\ cmd[c].pc = "idle"
    /\ \E n \in Names :
          AwaitFailure(c, [IdleCmd EXCEPT !.kind = "get", !.fp = <<[name |-> n]>>,
                                          !.queries = 1])
    /\ UNCHANGED <<store, writeSeq, notStoreVars>>

\* The stored values the commands start from when the transport may fail.
TransportStores == {<<>>, <<[name |-> "a", value |-> Stringify(Obj(MkFP("a", "1.0.0")))]>>}

(***************************************************************************)
(* The target-update commands that go through setGoalFingerprint:          *)
(* UpdateTargetFingerprint and SetTargetFingerprintFromLatestMaster.       *)
(***************************************************************************)
\* The collaborator whose command is followed.
Caller == 1

\* The branch parameter: not given, empty, or a branch name.
BranchParams == {<<>>, <<"">>, <<"develop">>}

\* A variant of branchOf that passes the parameter on as it is.
branchOf_asGiven(param) == IF param = <<>> THEN "" ELSE param[1]

\* cli.parameters.branch || "master"
branchOf(param) == IF param = <<>> \/ param[1] = "" THEN "master" ELSE param[1]

\* UpdateTargetFingerprint is invoked with the name and sha of an existing
\* fingerprint and responds; setGoalFingerprint is about to be called.
UpdateTargetInvoke(c) ==
    /\ cmd[c].pc = "idle"
    /\ \E fp \in FPs :
          cmd' = [cmd EXCEPT ![c] =
                    [IdleCmd EXCEPT !.kind = "update", !.pc = "invoked",
                                    !.fp = <<WithUser(fp, UserId(c))>>]]
    /\ UNCHANGED <<store, writeSeq, notStoreVars>>

\* SetTargetFingerprintFromLatestMaster is invoked: the branch to look at.
LatestMasterInvoke(c) ==
    /\ cmd[c].pc = "idle"
    /\ \E n \in Names, b \in BranchParams :
          cmd' = [cmd EXCEPT ![c] =
                    [IdleCmd EXCEPT !.kind = "latest", !.pc = "looking",
                                    !.fp = <<[name |-> n]>>,
                                    !.branchParam = b, !.branch = branchOf(b)]]
    /\ UNCHANGED <<store, writeSeq, notStoreVars>>

\* The shas the fingerprint of that name can have on the branch: that of a
\* version, or the empty sha.
ShasOnBranch(n) == {MkFP(n, v).sha : v \in Versions} \cup {""}

\* The awaited query for the fingerprint on the branch is answered: with a sha
\* the command goes on to setGoalFingerprint, with an empty one it returns
\* FailurePromise.
LatestMasterLookup(c) ==
    /\ cmd[c].kind = "latest"
    /\ cmd[c].pc = "looking"
    /\ \E sha \in ShasOnBranch(cmd[c].fp[1].name) :
          cmd' = [cmd EXCEPT ![c] =
                    IF sha # ""
                    THEN [@ EXCEPT !.pc = "invoked",
                                   !.fp = <<WithUser(
                                              CHOOSE fp \in FPs :
                                                  fp.name = cmd[c].fp[1].name /\ fp.sha = sha,
                                              UserId(c))>>]
                    ELSE [@ EXCEPT !.pc = "failure"]]
    /\ UNCHANGED <<store, writeSeq, notStoreVars>>

\* The awaited query for the fingerprint on the branch rejects.
LatestMasterLookupFails(c) ==
    /\ cmd[c].kind = "latest"
    /\ cmd[c].pc = "looking"
    /\ AwaitFailure(c, cmd[c])
    /\ UNCHANGED <<store, writeSeq, notStoreVars>>

GoalCommands == {"update", "latest"}

\* setGoalFingerprint, first half: the preferences are read as they are now.
SetGoalQuery(c) ==
    /\ cmd[c].kind \in GoalCommands
    /\ cmd[c].pc = "invoked"
    /\ cmd' = [cmd EXCEPT ![c].pc = "queried",
                          ![c].queries = @ + 1,
                          ![c].snap = queryPreferences(store),
                          ![c].readAt = Len(writeSeq)]
    /\ UNCHANGED <<store, writeSeq, notStoreVars>>

\* setGoalFingerprint, second half: the preferences that were read, with the
\* fingerprint of that name and sha as the new target, are written back whole.
SetGoalMutate(c) ==
    /\ cmd[c].kind \in GoalCommands
    /\ cmd[c].pc = "queried"
    /\ store' = mutatePreference(store,
                    Upsert(cmd[c].snap, cmd[c].fp[1].name, Stringify(Obj(cmd[c].fp[1]))))
    /\ writeSeq' = Append(writeSeq, c)
    /\ cmd' = [cmd EXCEPT ![c].pc = "written", ![c].mutates = @ + 1]
    /\ UNCHANGED notStoreVars

\* setGoalFingerprint: the query rejects.
SetGoalQueryFails(c) ==
    /\ cmd[c].kind \in GoalCommands
    /\ cmd[c].pc = "invoked"
    /\ BridgeFailure(c, [cmd[c] EXCEPT !.queries = @ + 1])
    /\ UNCHANGED <<store, writeSeq, notStoreVars>>

\* setGoalFingerprint: the mutate rejects; the stored value stays as it was.
SetGoalMutateFails(c) ==
    /\ cmd[c].kind \in GoalCommands
    /\ cmd[c].pc = "queried"
    /\ BridgeFailure(c, [cmd[c] EXCEPT !.mutates = @ + 1])
    /\ UNCHANGED <<store, writeSeq, notStoreVars>>

\* A command that sends the prompt without awaiting setGoalFingerprint.
awaitReturned_noAwait(pc) == pc \in {"invoked", "queried", "written", "resolved"}

\* await setGoalFingerprint(...) returned: its promise was fulfilled.
awaitReturned(pc) == pc \in {"written", "resolved"}

\* return askAboutBroadcast(...): the prompt is sent and the command ends.
SetGoalBroadcast(c) ==
    /\ cmd[c].kind \in GoalCommands
    /\ awaitReturned(cmd[c].pc)
    /\ cmd' = [cmd EXCEPT ![c].pc = "done", ![c].prompts = @ + 1]
    /\ UNCHANGED <<store, writeSeq, notStoreVars>>

(***************************************************************************)
(* The vote collection of one push: votes arrive one by one, then the      *)
(* ballot is tallied once.                                                 *)
(***************************************************************************)
VotesIdle ==
    /\ votes = <<>>
    /\ ballot = <<>>

notVoteVars == <<runVars, storeVars, pushVars, dispatchVars, diffVars, hashVars, awaitVars, applyVars, bridgeVars, messageVars>>

CollectVote ==
    /\ ballot = <<>>
    /\ Len(votes) < MaxVotes
    /\ \E v \in VoteUniverse : votes' = Append(votes, v)
    /\ UNCHANGED <<ballot, notVoteVars>>

Tally ==
    /\ ballot = <<>>
    /\ ballot' = <<voteResults(votes)>>
    /\ UNCHANGED <<votes, notVoteVars>>

(***************************************************************************)
(* The default target-compliance handler on the fingerprints of a push.    *)
(***************************************************************************)
\* A selector that takes every fingerprint, as the handler of the 2018
\* FingerprintSupport has it (selector: fp => true).
selector_all(reg, fp) == TRUE

\* register(name, ...): selector: fp.name === name
selector(reg, fp) == fp.name = reg

\* A variant of checkScope that asks every registration to select the fingerprint.
checkScope_every(fp, regs) == \A reg \in regs : selector(reg, fp)

\* checkScope: _.some(registrations, reg => reg.selector(fp))
checkScope(fp, regs) == \E reg \in regs : selector(reg, fp)

\* checkFingerprintTarget: the vote of the handler on an incoming fingerprint: Abstain
\* when no target is stored for its name, For when the target has its sha, Against,
\* with the stored target as fpTarget, when it differs.
checkFingerprintTarget(st, fp) ==
    LET target == getTarget(st, fp.name)
    IN  IF target = <<>> THEN AbstainVote(fp)
        ELSE IF Get(target[1], "sha") = fp.sha THEN ForVote(fp)
        ELSE AgainstVote(fp, target[1])

PushFpLists == UNION {[1..n -> FPs] : n \in 0..MaxPushFps}

PushIdle ==
    /\ registrations = {}
    /\ pushFps = <<>>
    /\ handled = 0

PushInit ==
    /\ registrations \in SUBSET Names
    /\ pushFps \in PushFpLists
    /\ handled = 0

\* The handler is dispatched on the next fingerprint of the push: if its selector
\* takes the fingerprint, its vote joins the votes of the push.
HandleFingerprint ==
    /\ handled < Len(pushFps)
    /\ handled' = handled + 1
    /\ votes' = IF checkScope(pushFps[handled + 1], registrations)
                THEN Append(votes, checkFingerprintTarget(store, pushFps[handled + 1]))
                ELSE votes
    /\ UNCHANGED <<ballot, registrations, pushFps, runVars, storeVars, dispatchVars, diffVars, hashVars, awaitVars, applyVars, bridgeVars, messageVars>>

\* All fingerprints were dispatched: the ballot function gets the votes of the push.
PushBallot ==
    /\ handled = Len(pushFps)
    /\ Tally

(***************************************************************************)
(* The dispatch of a push to the registered FingerprintHandlers:           *)
(* processPushImpact and the handlers given to pushImpactHandler.          *)
(***************************************************************************)
\* A handler function: its name, and whether evaluating it fails (throws or rejects).
Fn(name, fails) == [fn |-> name, fails |-> fails]

\* The FingerprintHandlers of the model.  selector is given by the names it takes;
\* diffHandler, handler and ballot are optional.
TargetHandler ==
    [selector |-> Names, handler |-> Fn("checkFingerprintTarget", FALSE), ballot |-> "votes"]
CoordinatesHandler ==
    [selector |-> {"a"}, diffHandler |-> Fn("setNewTargetFingerprint", FALSE)]
BothPathsHandler ==
    [selector |-> {"a"}, diffHandler |-> Fn("simpleDiff", FALSE),
     handler |-> Fn("simpleCheck", FALSE), ballot |-> "simpleBallot"]
FailingHandler ==
    [selector |-> {"b"}, handler |-> Fn("failing", TRUE)]

AllHandlers == <<TargetHandler, CoordinatesHandler, BothPathsHandler, FailingHandler>>

\* The elements of all whose index is in S, in the order of all.
RECURSIVE Pick(_, _, _)
Pick(all, S, i) ==
    IF i > Len(all) THEN <<>>
    ELSE (IF i \in S THEN <<all[i]>> ELSE <<>>) \o Pick(all, S, i + 1)

\* handlers.map(h => h(sdm, fpRegistrations)): the handlers an SDM can be configured with
HandlerLists == {Pick(AllHandlers, S, 1) : S \in SUBSET (1..Len(AllHandlers))}

\* (dissoc m k) and (assoc m k v)
Dissoc(m, k) == [x \in DOMAIN m \ {k} |-> m[x]]
Assoc(m, k, v) == [x \in DOMAIN m \cup {k} |-> IF x = k THEN v ELSE m[x]]

\* The object pushImpactHandler hands to processPushImpact for a FingerprintHandler:
\* handler under the key action, diffHandler under the key diffAction, each key
\* present when the function is.
toImpactHandler(h) ==
    [k \in {x \in {"selector", "action", "diffAction", "ballot"} :
              \/ x \in {"selector", "ballot"} /\ x \in DOMAIN h
              \/ x = "action" /\ "handler" \in DOMAIN h
              \/ x = "diffAction" /\ "diffHandler" \in DOMAIN h} |->
        CASE k = "action" -> h.handler
          [] k = "diffAction" -> h.diffHandler
          [] OTHER -> h[k]]

ImpactHandlers(hs) == [j \in 1..Len(hs) |-> toImpactHandler(hs[j])]

\* A variant of noDiffHandlers where the first handler with an action wins.
noDiffHandlers_firstWins(hs) ==
    LET has(h) == "action" \in DOMAIN h
        kept == SelectSeq(hs, has)
    IN  [j \in 1..(IF kept = <<>> THEN 0 ELSE 1) |-> Dissoc(kept[j], "diffAction")]

\* A variant of noDiffHandlers that leaves out the handlers that have a diffAction too.
noDiffHandlers_exclusive(hs) ==
    LET has(h) == "action" \in DOMAIN h /\ "diffAction" \notin DOMAIN h
        kept == SelectSeq(hs, has)
    IN  [j \in 1..Len(kept) |-> Dissoc(kept[j], "diffAction")]

\* processPushImpact: no-diff-handlers: (filter #(contains? % :action)), diffAction removed
noDiffHandlers(hs) ==
    LET has(h) == "action" \in DOMAIN h
        kept == SelectSeq(hs, has)
    IN  [j \in 1..Len(kept) |-> Dissoc(kept[j], "diffAction")]

\* processPushImpact: diff-handlers: (filter #(contains? % :diffAction)), the diffAction
\* put under action
diffHandlers(hs) ==
    LET has(h) == "diffAction" \in DOMAIN h
        kept == SelectSeq(hs, has)
    IN  [j \in 1..Len(kept) |-> Dissoc(Assoc(kept[j], "action", kept[j].diffAction), "diffAction")]

\* A Diff: the incoming fingerprint (to) and the prior one (from), if there is one.
Diff(to, from) == [to |-> to, from |-> from]

DiffUniverse ==
    UNION {{Diff(MkFP(n, "1.3.0"), from) :
               from \in {<<>>, <<MkFP(n, "1.3.0")>>, <<MkFP(n, "1.0.0")>>}} : n \in Names}

DiffLists == UNION {[1..n -> DiffUniverse] : n \in 0..MaxPushFps}

\* The prior fingerprint exists and differs from the incoming one.
Changed(d) == d.from # <<>> /\ d.from[1].sha # d.to.sha

\* The dispatch candidates of one fingerprint: every diff handler, then every handler.
Candidates(hs, i) ==
    LET dh == diffHandlers(ImpactHandlers(hs))
        nh == noDiffHandlers(ImpactHandlers(hs))
    IN  [j \in 1..Len(dh) |-> [i |-> i, path |-> "diffAction", h |-> dh[j]]]
        \o [j \in 1..Len(nh) |-> [i |-> i, path |-> "action", h |-> nh[j]]]

\* The dispatch candidates of the push, fingerprint by fingerprint.
RECURSIVE WorkFrom(_, _, _)
WorkFrom(hs, ds, i) ==
    IF i > Len(ds) THEN <<>> ELSE Candidates(hs, i) \o WorkFrom(hs, ds, i + 1)

Work == WorkFrom(handlers, diffs, 1)

\* The vote of a handler function on a diff.
VoteOn(d) ==
    IF d.from = <<>> THEN AbstainVote(d.to)
    ELSE IF d.from[1].sha = d.to.sha THEN ForVote(d.to)
    ELSE AgainstVote(d.to, d.from[1])

DispatchIdle ==
    /\ handlers = <<>>
    /\ diffs = <<>>
    /\ dpos = 0
    /\ calls = <<>>
    /\ bpos = 0
    /\ ballots = <<>>

DispatchInit ==
    /\ handlers \in HandlerLists
    /\ diffs \in DiffLists
    /\ dpos = 0
    /\ calls = <<>>
    /\ bpos = 0
    /\ ballots = <<>>

notDispatchVars == <<ballot, runVars, storeVars, pushVars, diffVars, hashVars, awaitVars, applyVars, bridgeVars, messageVars>>

\* The error a failing handler function rejects with.
HandlerError == [js |-> "error", message |-> "handler"]

\* The promise a handler function returns on a diff.
Evaluate(f, d) == IF f.fails THEN Rejected(HandlerError) ELSE Fulfilled(VoteOn(d))

\* The function of candidate w is invoked on its diff: the call is recorded, and what
\* from-promise makes of its promise joins the votes of the push: the vote, or the map
\* {:failure error} when the evaluation failed.
Invoke(w) ==
    /\ calls' = Append(calls, [i |-> w.i, path |-> w.path, fn |-> w.h.action.fn])
    /\ votes' = Append(votes, fromPromise(Evaluate(w.h.action, diffs[w.i])))

\* The next candidate is a diff handler: it is invoked when its selector takes the
\* fingerprint and the prior fingerprint exists and differs.
DispatchDiffAction ==
    /\ dpos < Len(Work)
    /\ Work[dpos + 1].path = "diffAction"
    /\ dpos' = dpos + 1
    /\ LET w == Work[dpos + 1]
       IN  IF diffs[w.i].to.name \in w.h.selector /\ Changed(diffs[w.i])
           THEN Invoke(w)
           ELSE UNCHANGED <<calls, votes>>
    /\ UNCHANGED <<handlers, diffs, bpos, ballots, notDispatchVars>>

\* The next candidate is a handler: it is invoked when its selector takes the fingerprint.
DispatchAction ==
    /\ dpos < Len(Work)
    /\ Work[dpos + 1].path = "action"
    /\ dpos' = dpos + 1
    /\ LET w == Work[dpos + 1]
       IN  IF diffs[w.i].to.name \in w.h.selector
           THEN Invoke(w)
           ELSE UNCHANGED <<calls, votes>>
    /\ UNCHANGED <<handlers, diffs, bpos, ballots, notDispatchVars>>

\* A variant of BallotDue that lets the ballots start at once.
BallotDue_atOnce == TRUE

\* The ballots are due when all candidates of the push were gone through.
BallotDue == dpos = Len(Work)

\* All candidates were gone through: the next handler's ballot, if it has one, is
\* invoked with the votes of the push.
InvokeBallot ==
    /\ BallotDue
    /\ bpos < Len(handlers)
    /\ bpos' = bpos + 1
    /\ ballots' = IF "ballot" \in DOMAIN handlers[bpos + 1]
                  THEN Append(ballots, [h |-> bpos + 1, fn |-> handlers[bpos + 1].ballot,
                                        votes |-> votes])
                  ELSE ballots
    /\ UNCHANGED <<handlers, diffs, dpos, calls, votes, notDispatchVars>>

(***************************************************************************)
(* The diff engine and renderDiff.  The data of a Diff holds what the      *)
(* comparison found: data.from is what renderDiff lists as removed,        *)
(* data.to what it lists as added.                                         *)
(***************************************************************************)
DataValues == {"a", "1.0.0", "1.3.0"}

\* The data tuples a compared fingerprint may carry.
Payloads == UNION {[1..n -> DataValues] : n \in 0..MaxData}

DataFP(d) == [name |-> "a", sha |-> consistentHash(d), data |-> d]

OptFPs == {<<>>} \cup {<<DataFP(d)>> : d \in Payloads}

Owner == "atomist"
Repo == "sdm"

Elems(xs) == {xs[i] : i \in 1..Len(xs)}

\* The elements of xs that are no element of ys, in the order of xs.
Minus(xs, ys) == SelectSeq(xs, LAMBDA x : x \notin Elems(ys))

\* The data of a fingerprint that may be absent.
dataOf(fp) == IF fp = <<>> THEN <<>> ELSE fp[1].data

\* diff(target, incoming): the element-wise set difference of the data tuples.
diff(tgt, inc) ==
    [removed |-> Minus(dataOf(tgt), dataOf(inc)),
     added |-> Minus(dataOf(inc), dataOf(tgt))]

\* A list with no element reaches renderDiff as nil or as an empty vector.
AsData(xs) == IF xs = <<>> THEN {<<>>, <<xs>>} ELSE {<<xs>>}

\* The backquote that format-list puts around an element, written as a quote.
Backquote == "'"

\* format-list: each element between backquotes, the elements separated by commas.
RECURSIVE formatList(_)
formatList(xs) ==
    IF xs = <<>> THEN ""
    ELSE IF Len(xs) = 1 THEN Backquote \o xs[1] \o Backquote
    ELSE Backquote \o xs[1] \o Backquote \o "," \o formatList(Tail(xs))

\* renderDiff listing the data of the two fingerprints instead of the data of the Diff.
renderDiff_payloads(event) ==
    LET from == IF event.from = <<>> THEN <<>> ELSE <<event.from[1].data>>
        to == IF event.to = <<>> THEN <<>> ELSE <<event.to[1].data>>
        fpName == IF event.from = <<>> THEN "null" ELSE event.from[1].name
    IN  IF from # <<>> \/ to # <<>>
        THEN (IF from # <<>> THEN "removed " \o formatList(from[1]) ELSE "")
             \o (IF from # <<>> /\ to # <<>> THEN ", " ELSE "")
             \o (IF to # <<>> THEN "added: " \o formatList(to[1]) ELSE "")
             \o "\n" \o event.owner \o "/" \o event.repo \o " " \o fpName
        ELSE Nil

\* renderDiff rendering only a Diff that has both lists.
renderDiff_bothSides(event) ==
    LET from == event.data.from
        to == event.data.to
        fpName == IF event.from = <<>> THEN "null" ELSE event.from[1].name
    IN  IF from # <<>> /\ to # <<>>
        THEN "removed " \o formatList(from[1]) \o ", " \o "added: " \o formatList(to[1])
             \o "\n" \o event.owner \o "/" \o event.repo \o " " \o fpName
        ELSE Nil

\* renderDiff: nil when data.from and data.to are both nil (an empty vector is
\* truthy); otherwise the removed and the added list, then owner/repo and the
\* name of the from fingerprint ("null" when there is none).
renderDiff(event) ==
    LET from == event.data.from
        to == event.data.to
        fpName == IF event.from = <<>> THEN "null" ELSE event.from[1].name
    IN  IF from # <<>> \/ to # <<>>
        THEN (IF from # <<>> THEN "removed " \o formatList(from[1]) ELSE "")
             \o (IF from # <<>> /\ to # <<>> THEN ", " ELSE "")
             \o (IF to # <<>> THEN "added: " \o formatList(to[1]) ELSE "")
             \o "\n" \o event.owner \o "/" \o event.repo \o " " \o fpName
        ELSE Nil

DiffIdle ==
    /\ prior = <<>>
    /\ incoming = <<>>
    /\ delta = <<>>
    /\ rendered = <<>>

DiffInit ==
    /\ prior \in OptFPs
    /\ incoming \in OptFPs
    /\ delta = <<>>
    /\ rendered = <<>>

notDiffVars == <<voteVars, runVars, storeVars, pushVars, dispatchVars, hashVars, awaitVars, applyVars, bridgeVars, messageVars>>

\* The comparison of the incoming fingerprint with the target.
ComputeDiff ==
    /\ delta = <<>>
    /\ \E f \in AsData(diff(prior, incoming).removed),
          t \in AsData(diff(prior, incoming).added) :
           delta' = <<[from |-> f, to |-> t]>>
    /\ UNCHANGED <<prior, incoming, rendered, notDiffVars>>

\* The Diff handed to renderDiff.
DiffEvent ==
    [owner |-> Owner, repo |-> Repo, from |-> prior, to |-> incoming, data |-> delta[1]]

RenderDiff ==
    /\ delta # <<>>
    /\ rendered = <<>>
    /\ rendered' = <<renderDiff(DiffEvent)>>
    /\ UNCHANGED <<prior, incoming, delta, notDiffVars>>

(***************************************************************************)
(* Identity hashing: the components that compute the sha of a fingerprint.  *)
(***************************************************************************)
Components == {"extractor", "command"}

\* The data tuples hashed; two of them hold the same elements in another order.
HashData == {<<"a", "1.0.0">>, <<"a", "1.3.0">>, <<"1.0.0", "a">>}

\* The schema versions of a fingerprint's data.
FormatVersions == {1, 2}

HashIdle == hashes = <<>>

notHashVars == <<voteVars, runVars, storeVars, pushVars, dispatchVars, diffVars, awaitVars, applyVars, bridgeVars, messageVars>>

\* A component computes the sha of a fingerprint.
ComputeHash ==
    /\ Len(hashes) < MaxHashes
    /\ \E c \in Components, n \in Names, v \in FormatVersions, d \in HashData :
           LET fp == [name |-> n, version |-> v, data |-> d]
           IN  hashes' = Append(hashes, [by |-> c, fp |-> fp, sha |-> shaOf(fp)])
    /\ UNCHANGED notHashVars

(***************************************************************************)
(* pusher: applying a target fingerprint to a project.                     *)
(***************************************************************************)
\* What a registration's apply does when invoked: resolve to true, to false,
\* to no value, or throw / reject.
ApplyOutcomes == {"true", "false", "undefined", "throws"}

\* A registration as pusher sees it: apply may be missing, and the selector
\* takes the fingerprint or not.
PusherRegistrations ==
    {[apply |-> a, selects |-> m] :
        a \in {<<>>} \cup {<<o>> : o \in ApplyOutcomes}, m \in BOOLEAN}

PusherRegistrationLists ==
    UNION {[1..n -> PusherRegistrations] : n \in 0..MaxRegistrations}

ApplyIdle ==
    /\ pregs = <<>>
    /\ ppos = 0
    /\ applied = <<>>
    /\ failures = <<>>
    /\ generic = 0
    /\ pstate = "idle"

PusherInit ==
    /\ pregs \in PusherRegistrationLists
    /\ ppos = 0
    /\ applied = <<>>
    /\ failures = <<>>
    /\ generic = 0
    /\ pstate = "running"

notApplyVars == <<voteVars, runVars, storeVars, pushVars, dispatchVars, diffVars, hashVars,
                  awaitVars, bridgeVars, messageVars>>

\* A loop that applies every registration that has an apply, whatever it selects.
shouldApply_anyDefined(r) == r.apply # <<>>

\* registration.apply && registration.selector(fp)
shouldApply(r) == r.apply # <<>> /\ r.selects

\* One iteration of the loop over the registrations.
PusherIteration ==
    /\ pstate = "running"
    /\ ppos < Len(pregs)
    /\ LET i == ppos + 1
           r == pregs[i]
       IN  /\ ppos' = i
           /\ IF shouldApply(r)
              THEN /\ applied' = Append(applied, i)
                   /\ IF r.apply[1] = "throws"
                      THEN pstate' = "rejected" /\ failures' = failures
                      ELSE /\ pstate' = pstate
                           /\ failures' = IF r.apply[1] = "true" THEN failures
                                          ELSE Append(failures, i)
              ELSE UNCHANGED <<applied, failures, pstate>>
    /\ UNCHANGED <<pregs, generic, notApplyVars>>

\* After the loop: await fingerprints.applyFingerprint(p.baseDir, fp); return p.
PusherApplyFingerprint ==
    /\ pstate = "running"
    /\ ppos = Len(pregs)
    /\ generic' = generic + 1
    /\ pstate' = "done"
    /\ UNCHANGED <<pregs, ppos, applied, failures, notApplyVars>>

(***************************************************************************)
(* The promise/channel bridge on its own: from-promise on a promise, and    *)
(* chan->promise on from-promise's channel or on another channel.          *)
(***************************************************************************)
JsFalse == [js |-> "false"]
JsTrue == [js |-> "true"]
JsZero == [js |-> "number", val |-> 0]
JsEmptyString == [js |-> "string", val |-> ""]

\* What the promise handed to from-promise may resolve to.
ResultValues ==
    {JsNull, Undefined, JsFalse, JsTrue, JsZero, JsEmptyString, Obj([ok |-> "yes"])}

BridgeErrors == {TransportError, HandlerError}

BridgePromises == {Fulfilled(v) : v \in ResultValues} \cup {Rejected(e) : e \in BridgeErrors}

\* A channel other than from-promise's: closed without a value, or holding one
\* value (nil cannot be put on a channel).
OtherChannels ==
    {[kind |-> "closed"]}
    \cup {[kind |-> "value", value |-> v] :
             v \in {JsFalse, JsTrue, Done, Obj([ok |-> "yes"]),
                    Obj([failure |-> TransportError])}}

BridgeChannel == [kind |-> "from-promise"]

BridgeIdle ==
    /\ bpromise = Fulfilled(Undefined)
    /\ bsource = [kind |-> "none"]
    /\ bputs = <<>>
    /\ bclosed = FALSE
    /\ bsettled = <<>>

BridgeInit ==
    /\ bpromise \in BridgePromises
    /\ bsource \in {BridgeChannel} \cup OtherChannels
    /\ bputs = <<>>
    /\ bclosed = FALSE
    /\ bsettled = <<>>

notBridgeVars == <<voteVars, runVars, storeVars, pushVars, dispatchVars, diffVars, hashVars,
                   awaitVars, applyVars, messageVars>>

\* from-promise: the promise settled and the then or the catch callback puts
\* its value on the channel.
FromPromisePut ==
    /\ bputs = <<>>
    /\ bputs' = <<fromPromise(bpromise)>>
    /\ UNCHANGED <<bpromise, bsource, bclosed, bsettled, notBridgeVars>>

\* from-promise: (close! c), once the value put was taken.
FromPromiseClose ==
    /\ bputs # <<>>
    /\ ~bclosed
    /\ bsource = BridgeChannel => bsettled # <<>>
    /\ bclosed' = TRUE
    /\ UNCHANGED <<bpromise, bsource, bputs, bsettled, notBridgeVars>>

\* The value (<! chan) yields: the value on the channel, nil for a closed one.
TakeFrom(ch) ==
    IF ch = BridgeChannel THEN bputs[1]
    ELSE IF ch.kind = "closed" THEN JsNull
    ELSE ch.value

\* chan->promise: the take yields, and the promise is accepted or rejected.
ChanToPromiseSettle ==
    /\ bsettled = <<>>
    /\ bsource = BridgeChannel => bputs # <<>>
    /\ bsettled' = <<chanToPromise(TakeFrom(bsource))>>
    /\ UNCHANGED <<bpromise, bsource, bputs, bclosed, notBridgeVars>>

(***************************************************************************)
(* The default messageMaker of the target handler: the attachments of the  *)
(* message on the failed votes of a push.                                  *)
(***************************************************************************)
\* Array.prototype.join: the elements with the separator between them
RECURSIVE join(_, _)
join(xs, sep) ==
    IF xs = <<>> THEN ""
    ELSE IF Len(xs) = 1 THEN xs[1]
    ELSE xs[1] \o sep \o join(Tail(xs), sep)

\* failedVotes.map(vote => vote.fpTarget.name)
fpTargetNames(failedVotes) == [i \in 1..Len(failedVotes) |-> failedVotes[i].fpTarget.name]

\* The first attachment of the message: "Fingerprint differences detected on ..."
headerAttachment == [kind |-> "header", footer |-> FALSE]

\* oneFingerprint: the attachment on one failed vote, with the buttons Apply
\* (fingerprint: vote.fpTarget.name) and Set New Target (name and sha of vote.fingerprint)
oneFingerprint(vote) ==
    [kind        |-> "oneFingerprint",
     fingerprint |-> vote.fpTarget.name,
     name        |-> vote.fingerprint.name,
     sha         |-> vote.fingerprint.sha,
     footer      |-> FALSE]

\* applyAll: the attachment with the button Apply All on all failed votes
applyAll(vr) ==
    [kind         |-> "applyAll",
     text         |-> "Apply all changes from " \o join(NamesOf(vr.failedVotes), ", "),
     fingerprints |-> join(fpTargetNames(vr.failedVotes), ","),
     footer       |-> FALSE]

\* message.attachments[message.attachments.length - 1].footer = slackFooter()
withFooter(atts) ==
    [i \in 1..Len(atts) |-> IF i = Len(atts) THEN [atts[i] EXCEPT !.footer = TRUE] ELSE atts[i]]

\* A variant of messageMaker that offers Apply All as soon as one vote failed.
messageMaker_fromOne(vr) ==
    LET each == [i \in 1..Len(vr.failedVotes) |-> oneFingerprint(vr.failedVotes[i])]
        atts == <<headerAttachment>> \o each
    IN  withFooter(IF Len(vr.failedVotes) > 0 THEN Append(atts, applyAll(vr)) ELSE atts)

\* messageMaker: the header, failedVotes.map(oneFingerprint), applyAll pushed when
\* failedVotes.length > 1, the footer on the last attachment
messageMaker(vr) ==
    LET each == [i \in 1..Len(vr.failedVotes) |-> oneFingerprint(vr.failedVotes[i])]
        atts == <<headerAttachment>> \o each
    IN  withFooter(IF Len(vr.failedVotes) > 1 THEN Append(atts, applyAll(vr)) ELSE atts)

MessageIdle == message = <<>>

notMessageVars == <<runVars, storeVars, pushVars, dispatchVars, diffVars, hashVars,
                    awaitVars, applyVars, bridgeVars>>

\* The ballot of the push is taken and the messageMaker is called with it: the
\* message it builds is sent.
MakeMessage ==
    /\ ballot # <<>>
    /\ message = <<>>
    /\ message' = <<messageMaker(ballot[1])>>
    /\ UNCHANGED <<votes, ballot, notMessageVars>>

(***************************************************************************)
(* fingerprintRunner.                                                      *)
(***************************************************************************)
\* What one call of fingerprinter.extract(p) can do: throw (or reject), resolve to a
\* single FP, resolve to an array of FPs, or resolve to undefined.
Throws == [kind |-> "throws"]
ReturnsOne(fp) == [kind |-> "one", fp |-> fp]
ReturnsMany(arr) == [kind |-> "many", fps |-> arr]
ReturnsNothing == [kind |-> "nothing"]

\* The fingerprints the extractors of the model produce: two of one name.
ExtractableFPs == {MkFP("a", v) : v \in Versions}

FPArrays == UNION {[1..n -> ExtractableFPs] : n \in 0..MaxExtracted}

ExtractOutcomes ==
    {Throws, ReturnsNothing} \cup {ReturnsOne(fp) : fp \in ExtractableFPs}
    \cup {ReturnsMany(arr) : arr \in FPArrays}

\* A variant of the loop body that keeps one fingerprint per name: a fingerprint whose
\* name the array already holds is left out.
fingerprintRunnerStep_uniqueNames(acc, o) ==
    LET new(fp) == \A i \in 1..Len(acc) : acc[i].name # fp.name
    IN  IF o.kind = "one" /\ new(o.fp) THEN [fps |-> Append(acc, o.fp), raised |-> FALSE]
        ELSE IF o.kind = "many" THEN [fps |-> acc \o SelectSeq(o.fps, new), raised |-> FALSE]
        ELSE [fps |-> acc, raised |-> FALSE]

\* A variant of the loop body that pushes whatever the extractor resolved to, arrays
\* and undefined included, as one element.
fingerprintRunnerStep_pushAll(acc, o) ==
    IF o.kind = "throws" THEN [fps |-> acc, raised |-> FALSE]
    ELSE IF o.kind = "one" THEN [fps |-> Append(acc, o.fp), raised |-> FALSE]
    ELSE IF o.kind = "many" THEN [fps |-> Append(acc, o.fps), raised |-> FALSE]
    ELSE [fps |-> Append(acc, Undefined), raised |-> FALSE]

\* A variant of the loop body without the try/catch: a throwing extractor ends the run.
fingerprintRunnerStep_noCatch(acc, o) ==
    IF o.kind = "throws" THEN [fps |-> acc, raised |-> TRUE]
    ELSE IF o.kind = "one" THEN [fps |-> Append(acc, o.fp), raised |-> FALSE]
    ELSE IF o.kind = "many" THEN [fps |-> acc \o o.fps, raised |-> FALSE]
    ELSE [fps |-> acc, raised |-> FALSE]

\* One iteration of the loop over the fingerprinters: the new fps array, and whether
\* an exception left the loop.
fingerprintRunnerStep(acc, o) ==
    IF o.kind = "throws"
    THEN [fps |-> acc, raised |-> FALSE]                     \* catch (e) { logger.error(e) }
    ELSE IF o.kind = "one"
    THEN [fps |-> Append(acc, o.fp), raised |-> FALSE]       \* fp && !(fp instanceof Array)
    ELSE IF o.kind = "many"
    THEN [fps |-> acc \o o.fps, raised |-> FALSE]            \* else if (fp): concat
    ELSE [fps |-> acc, raised |-> FALSE]                     \* undefined: neither branch

RunnerIdle ==
    /\ nExtractors = 0
    /\ outcomes = <<>>
    /\ fps = <<>>
    /\ runState = "idle"

\* The runner is called on a project, with some number of registered extractors.
RunnerInit ==
    /\ nExtractors \in 0..MaxExtractors
    /\ outcomes = <<>>
    /\ fps = <<>>
    /\ runState = "running"

\* The next extractor of the loop is awaited and its result, one of outs, handled.
RunExtractorFrom(outs) ==
    /\ runState = "running"
    /\ Len(outcomes) < nExtractors
    /\ \E o \in outs :
          LET r == fingerprintRunnerStep(fps, o)
          IN  /\ outcomes' = Append(outcomes, o)
              /\ fps' = r.fps
              /\ runState' = IF r.raised THEN "raised" ELSE "running"
    /\ UNCHANGED <<nExtractors, voteVars, storeVars, pushVars, dispatchVars, diffVars, hashVars, awaitVars, applyVars, bridgeVars, messageVars>>

RunExtractor == RunExtractorFrom(ExtractOutcomes)

AwaitIdle ==
    /\ started = <<>>
    /\ pending = 0

notAwaitVars == <<voteVars, storeVars, pushVars, dispatchVars, diffVars, hashVars, applyVars, bridgeVars, messageVars>>

\* A loop that goes on to the next extractor without awaiting the one it called.
loopReady_noAwait == TRUE

\* The loop goes on to its next iteration when no extract promise is awaited.
loopReady == pending = 0

\* fingerprinter.extract(p) is called for the next extractor of the loop.
StartExtractor ==
    /\ runState = "running"
    /\ loopReady
    /\ Len(started) < nExtractors
    /\ started' = Append(started, Len(started) + 1)
    /\ pending' = Len(started) + 1
    /\ UNCHANGED <<runVars, notAwaitVars>>

\* The awaited promise settles, by a value or by a rejection, and the loop handles it.
SettleExtractor ==
    /\ runState = "running"
    /\ pending # 0
    /\ \E o \in ExtractOutcomes :
          LET r == fingerprintRunnerStep(fps, o)
          IN  /\ outcomes' = Append(outcomes, o)
              /\ fps' = r.fps
              /\ runState' = IF r.raised THEN "raised" ELSE "running"
    /\ pending' = 0
    /\ UNCHANGED <<nExtractors, started, notAwaitVars>>

\* The loop is over: return fps.
RunnerReturn ==
    /\ runState = "running"
    /\ Len(outcomes) = nExtractors
    /\ runState' = "returned"
    /\ UNCHANGED <<nExtractors, outcomes, fps, voteVars, storeVars, pushVars, dispatchVars, diffVars, hashVars, awaitVars, applyVars, bridgeVars, messageVars>>

(***************************************************************************)
(* A push from extraction to ballot: the fingerprints fingerprintRunner    *)
(* returns are uploaded, and the push impact is dispatched on them.        *)
(***************************************************************************)
\* What the extractors of a push do here: fail, or return a fingerprint of "a" or "b".
PipelineOutcomes == {Throws} \cup {ReturnsOne(MkFP(n, "1.3.0")) : n \in Names}

PipelineExtract == RunExtractorFrom(PipelineOutcomes)

\* The fingerprints are uploaded and the PushImpact event fires: each fingerprint comes
\* with the prior fingerprint of its name, here an older version.
PushImpact ==
    /\ runState = "returned"
    /\ runState' = "uploaded"
    /\ diffs' = [i \in 1..Len(fps) |-> Diff(fps[i], <<MkFP(fps[i].name, "1.0.0")>>)]
    /\ UNCHANGED <<nExtractors, outcomes, fps, handlers, dpos, calls, bpos, ballots,
                   voteVars, storeVars, pushVars, diffVars, hashVars, awaitVars, applyVars, bridgeVars, messageVars>>

\* The ballots of a push whose impact was dispatched.
PipelineBallot ==
    /\ runState = "uploaded"
    /\ InvokeBallot

PipelineInit ==
    /\ RunnerInit
    /\ handlers = AllHandlers
    /\ diffs = <<>>
    /\ dpos = 0
    /\ calls = <<>>
    /\ bpos = 0
    /\ ballots = <<>>
    /\ VotesIdle
    /\ StoreIdle
    /\ PushIdle
    /\ DiffIdle
    /\ HashIdle
    /\ AwaitIdle
    /\ ApplyIdle
    /\ BridgeIdle
    /\ MessageIdle

PipelineNext ==
    \/ PipelineExtract
    \/ RunnerReturn
    \/ PushImpact
    \/ DispatchDiffAction
    \/ DispatchAction
    \/ PipelineBallot

SpecPipeline == PipelineInit /\ [][PipelineNext]_vars

(***************************************************************************)
(* Specifications.                                                         *)
(***************************************************************************)
VotesInit == VotesIdle /\ RunnerIdle /\ StoreIdle /\ PushIdle /\ DispatchIdle /\ DiffIdle /\ HashIdle /\ AwaitIdle /\ ApplyIdle /\ BridgeIdle /\ MessageIdle

VotesNext == CollectVote \/ Tally

SpecVotes == VotesInit /\ [][VotesNext]_vars

MessageNext == CollectVote \/ Tally \/ MakeMessage

SpecMessage == VotesInit /\ [][MessageNext]_vars

RunInit == RunnerInit /\ VotesIdle /\ StoreIdle /\ PushIdle /\ DispatchIdle /\ DiffIdle /\ HashIdle /\ AwaitIdle /\ ApplyIdle /\ BridgeIdle /\ MessageIdle

RunNext == RunExtractor \/ RunnerReturn

SpecRunner == RunInit /\ [][RunNext]_vars

RunnerLiveInit ==
    /\ RunnerInit
    /\ AwaitIdle
    /\ ApplyIdle
    /\ BridgeIdle
    /\ MessageIdle
    /\ VotesIdle
    /\ StoreIdle
    /\ PushIdle
    /\ DispatchIdle
    /\ DiffIdle
    /\ HashIdle

RunnerLiveNext == StartExtractor \/ SettleExtractor \/ RunnerReturn

\* The runner's own steps are taken when they can be, and every extract that
\* was called settles.
SpecRunnerLive ==
    /\ RunnerLiveInit
    /\ [][RunnerLiveNext]_vars
    /\ WF_vars(StartExtractor)
    /\ WF_vars(SettleExtractor)
    /\ WF_vars(RunnerReturn)

StoreSpecInit == StoreInit /\ VotesIdle /\ RunnerIdle /\ PushIdle /\ DispatchIdle /\ DiffIdle /\ HashIdle /\ AwaitIdle /\ ApplyIdle /\ BridgeIdle /\ MessageIdle

StoreNext ==
    \E c \in Clients :
        \/ SetTargetInvoke(c)
        \/ SetTargetQuery(c)
        \/ SetTargetMutate(c)
        \/ SetTargetBroadcast(c)
        \/ DeleteTargetQuery(c)
        \/ DeleteTargetMutate(c)
        \/ ListTargets(c)
        \/ ListOneTarget(c)

SpecStore == StoreSpecInit /\ [][StoreNext]_vars

TransportInit ==
    /\ store \in TransportStores
    /\ cmd = [c \in Clients |-> IdleCmd]
    /\ writeSeq = <<>>
    /\ VotesIdle
    /\ RunnerIdle
    /\ PushIdle
    /\ DispatchIdle
    /\ DiffIdle
    /\ HashIdle
    /\ AwaitIdle
    /\ ApplyIdle
    /\ BridgeIdle
    /\ MessageIdle

TransportNext ==
    \E c \in Clients :
        \/ SetTargetInvoke(c)
        \/ SetTargetQuery(c)
        \/ SetTargetQueryFails(c)
        \/ SetTargetMutate(c)
        \/ SetTargetMutateFails(c)
        \/ SetTargetBroadcast(c)
        \/ DeleteTargetQuery(c)
        \/ DeleteTargetQueryFails(c)
        \/ DeleteTargetMutate(c)
        \/ DeleteTargetMutateFails(c)
        \/ ListTargets(c)
        \/ ListTargetsFails(c)
        \/ ListOneTarget(c)
        \/ ListOneTargetFails(c)

SpecTransport == TransportInit /\ [][TransportNext]_vars

TargetUpdateNext ==
    \E c \in {Caller} :
        \/ SetTargetInvoke(c)
        \/ SetTargetQuery(c)
        \/ SetTargetQueryFails(c)
        \/ SetTargetMutate(c)
        \/ SetTargetMutateFails(c)
        \/ SetTargetBroadcast(c)
        \/ UpdateTargetInvoke(c)
        \/ LatestMasterInvoke(c)
        \/ LatestMasterLookup(c)
        \/ LatestMasterLookupFails(c)
        \/ SetGoalQuery(c)
        \/ SetGoalQueryFails(c)
        \/ SetGoalMutate(c)
        \/ SetGoalMutateFails(c)
        \/ SetGoalBroadcast(c)

SpecTargetUpdate == TransportInit /\ [][TargetUpdateNext]_vars

PushSpecInit ==
    /\ PushInit
    /\ store \in StoreInits
    /\ cmd = [c \in Clients |-> IdleCmd]
    /\ writeSeq = <<>>
    /\ VotesIdle
    /\ RunnerIdle
    /\ DispatchIdle
    /\ DiffIdle
    /\ HashIdle
    /\ AwaitIdle
    /\ ApplyIdle
    /\ BridgeIdle
    /\ MessageIdle

PushNext == HandleFingerprint \/ PushBallot

SpecPush == PushSpecInit /\ [][PushNext]_vars

DispatchSpecInit == DispatchInit /\ VotesIdle /\ RunnerIdle /\ StoreIdle /\ PushIdle /\ DiffIdle /\ HashIdle /\ AwaitIdle /\ ApplyIdle /\ BridgeIdle /\ MessageIdle

DispatchNext == DispatchDiffAction \/ DispatchAction \/ InvokeBallot

SpecDispatch == DispatchSpecInit /\ [][DispatchNext]_vars

DiffSpecInit ==
    /\ DiffInit
    /\ VotesIdle
    /\ RunnerIdle
    /\ StoreIdle
    /\ PushIdle
    /\ DispatchIdle
    /\ HashIdle
    /\ AwaitIdle
    /\ ApplyIdle
    /\ BridgeIdle
    /\ MessageIdle

DiffNext == ComputeDiff \/ RenderDiff

SpecDiff == DiffSpecInit /\ [][DiffNext]_vars

HashSpecInit ==
    /\ HashIdle
    /\ AwaitIdle
    /\ ApplyIdle
    /\ BridgeIdle
    /\ MessageIdle
    /\ VotesIdle
    /\ RunnerIdle
    /\ StoreIdle
    /\ PushIdle
    /\ DispatchIdle
    /\ DiffIdle

SpecHash == HashSpecInit /\ [][ComputeHash]_vars

PusherSpecInit ==
    /\ PusherInit
    /\ VotesIdle
    /\ RunnerIdle
    /\ StoreIdle
    /\ PushIdle
    /\ DispatchIdle
    /\ DiffIdle
    /\ HashIdle
    /\ AwaitIdle
    /\ BridgeIdle
    /\ MessageIdle

PusherNext == PusherIteration \/ PusherApplyFingerprint

SpecPusher == PusherSpecInit /\ [][PusherNext]_vars

BridgeSpecInit ==
    /\ BridgeInit
    /\ VotesIdle
    /\ RunnerIdle
    /\ StoreIdle
    /\ PushIdle
    /\ DispatchIdle
    /\ DiffIdle
    /\ HashIdle
    /\ AwaitIdle
    /\ ApplyIdle
    /\ MessageIdle

BridgeNext == FromPromisePut \/ FromPromiseClose \/ ChanToPromiseSettle

SpecBridge == BridgeSpecInit /\ [][BridgeNext]_vars

(***************************************************************************)
(* Properties of the ballot.                                               *)
(***************************************************************************)
Tallied == ballot # <<>>

Decision(v) == IF IsMap(v) THEN Get(v.obj, "decision") ELSE Nil
VoteName(v) == IF IsMap(v) THEN Get(v.obj, "name") ELSE Nil

\* The names of the votes of vl whose decision is d, in the order of vl.
RECURSIVE NamesWith(_, _)
NamesWith(vl, d) ==
    IF vl = <<>> THEN <<>>
    ELSE LET rest == NamesWith(Tail(vl), d)
         IN  IF Decision(Head(vl)) = d THEN <<VoteName(Head(vl))>> \o rest ELSE rest

\* C1: the ballot's failed flag is true if and only if the vote list holds at least
\* one vote whose decision is Against.
C1_FailedIffAgainst ==
    Tallied => (ballot[1].failed <=> \E i \in 1..Len(votes) : Decision(votes[i]) = "Against")

\* The case [For, Against]: the ballot has failed.
C1_Witness ==
    /\ Tallied
    /\ Len(votes) = 2
    /\ Decision(votes[1]) = "For"
    /\ Decision(votes[2]) = "Against"
    /\ ballot[1].failed

\* An Abstain vote: one whose decision is Abstain, or the decision-less
\* {abstain: true} vote of setNewTargetFingerprint.
IsAbstain(v) == Decision(v) = "Abstain" \/ v = setNewTargetFingerprint

WithoutAbstain(vl) == LET keep(v) == ~IsAbstain(v) IN SelectSeq(vl, keep)

\* C6: Abstain votes never count: the ballot of a vote list equals the ballot of the
\* same list with all its Abstain votes (the {abstain: true} vote included) removed.
C6_AbstainNeverCounts ==
    Tallied => ballot[1] = voteResults(WithoutAbstain(votes))

\* A tallied list that holds an Abstain vote, an {abstain: true} vote and an Against vote.
C6_Witness ==
    /\ Tallied
    /\ \E i \in 1..Len(votes) : Decision(votes[i]) = "Abstain"
    /\ \E i \in 1..Len(votes) : votes[i] = setNewTargetFingerprint
    /\ \E i \in 1..Len(votes) : Decision(votes[i]) = "Against"

Permute(vl, p) == [i \in 1..Len(vl) |-> vl[p[i]]]

Count(s, x) == Cardinality({i \in 1..Len(s) : s[i] = x})

\* s and t hold the same elements, each the same number of times.
SameBag(s, t) == Len(s) = Len(t) /\ \A i \in 1..Len(s) : Count(s, s[i]) = Count(t, s[i])

\* C9 as stated: for every permutation of the vote list voteResults returns the same
\* ballot (failed, failedFps, successFps and failedVotes).
C9_SameBallotForEveryOrder ==
    Tallied => \A p \in Permutations(1..Len(votes)) : voteResults(Permute(votes, p)) = ballot[1]

\* C9 amended: for every permutation of the vote list the failed flag is the same, and
\* failedFps, successFps and failedVotes hold the same elements the same number of
\* times; only their order follows the order of the votes.
C9_SameBallotUpToOrder ==
    Tallied =>
        \A p \in Permutations(1..Len(votes)) :
            LET r == voteResults(Permute(votes, p))
            IN  /\ r.failed = ballot[1].failed
                /\ SameBag(r.failedFps, ballot[1].failedFps)
                /\ SameBag(r.successFps, ballot[1].successFps)
                /\ SameBag(r.failedVotes, ballot[1].failedVotes)

\* A tallied list with two Against votes of different names after a vote that is dropped:
\* its permutations reorder failedFps.
C9_Witness ==
    /\ Tallied
    /\ Len(votes) = 3
    /\ ~IsMap(votes[1])
    /\ Decision(votes[2]) = "Against"
    /\ Decision(votes[3]) = "Against"
    /\ VoteName(votes[2]) # VoteName(votes[3])
    /\ Len(ballot[1].failedFps) = 2

InSeq(x, s) == \E i \in 1..Len(s) : s[i] = x

\* C10 as stated: failedFps is the names of the Against votes and successFps the names
\* of the For votes, each in input order; no name of an Abstain vote appears in either,
\* and no name appears in both.
C10_NamesPartitioned ==
    Tallied =>
        /\ ballot[1].failedFps = NamesWith(votes, "Against")
        /\ ballot[1].successFps = NamesWith(votes, "For")
        /\ \A i \in 1..Len(votes) :
              Decision(votes[i]) = "Abstain" =>
                  /\ ~InSeq(VoteName(votes[i]), ballot[1].failedFps)
                  /\ ~InSeq(VoteName(votes[i]), ballot[1].successFps)
        /\ \A n \in Names : ~(InSeq(n, ballot[1].failedFps) /\ InSeq(n, ballot[1].successFps))

\* C10 amended: failedFps is the names of the Against votes and successFps the names of
\* the For votes, each in input order, one element per such vote and none for any other
\* vote; a name appears in both lists, or is the name of an Abstain vote and appears in
\* a list, only when two votes of different decisions carry that name.
C10_VotesPartitioned ==
    Tallied =>
        /\ ballot[1].failedFps = NamesWith(votes, "Against")
        /\ ballot[1].successFps = NamesWith(votes, "For")
        /\ Len(ballot[1].failedFps) + Len(ballot[1].successFps)
               = Cardinality({i \in 1..Len(votes) : Decision(votes[i]) \in {"For", "Against"}})
        /\ \A n \in Names :
              (\/ InSeq(n, ballot[1].failedFps) /\ InSeq(n, ballot[1].successFps)
               \/ \E i \in 1..Len(votes) :
                     /\ Decision(votes[i]) = "Abstain" /\ VoteName(votes[i]) = n
                     /\ (InSeq(n, ballot[1].failedFps) \/ InSeq(n, ballot[1].successFps)))
              => \E i, j \in 1..Len(votes) :
                     /\ VoteName(votes[i]) = n /\ VoteName(votes[j]) = n
                     /\ Decision(votes[i]) # Decision(votes[j])

\* A tallied list [For a, Abstain b, Against b]: failedFps = [b], successFps = [a].
C10_Witness ==
    /\ Tallied
    /\ Len(votes) = 3
    /\ Decision(votes[1]) = "For" /\ VoteName(votes[1]) = "a"
    /\ Decision(votes[2]) = "Abstain" /\ VoteName(votes[2]) = "b"
    /\ Decision(votes[3]) = "Against" /\ VoteName(votes[3]) = "b"
    /\ ballot[1].failedFps = <<"b">>
    /\ ballot[1].successFps = <<"a">>

(***************************************************************************)
(* Properties of the extraction runner.                                    *)
(***************************************************************************)
\* The fingerprints of the extractors that succeeded, extractor by extractor.
RECURSIVE Extracted(_)
Extracted(os) ==
    IF os = <<>> THEN <<>>
    ELSE LET o == Head(os)
             mine == CASE o.kind = "one" -> <<o.fp>>
                       [] o.kind = "many" -> o.fps
                       [] OTHER -> <<>>
         IN  mine \o Extracted(Tail(os))

\* C4: whichever extractors throw, the run never raises, and the list it returns holds
\* exactly the fingerprints of the extractors that succeeded.
C4_FailureIsolation ==
    /\ runState # "raised"
    /\ runState = "returned" => Len(outcomes) = nExtractors /\ fps = Extracted(outcomes)

\* The case [A throws, B returns one fingerprint]: the run returned exactly B's.
C4_Witness ==
    /\ runState = "returned"
    /\ Len(outcomes) = 2
    /\ outcomes[1] = Throws
    /\ outcomes[2].kind = "one"
    /\ fps = <<outcomes[2].fp>>

(***************************************************************************)
(* Properties of the target store.                                         *)
(***************************************************************************)
\* The collaborator's SetTargetFingerprint has had its mutate applied.
Wrote(c) == cmd[c].kind = "set" /\ cmd[c].pc \in {"written", "done"} /\ cmd[c].error = <<>>

\* The place of the collaborator's mutate among the writes.
WroteAt(c) == CHOOSE i \in 1..Len(writeSeq) : writeSeq[i] = c

\* The fingerprint the collaborator passed to SetTargetFingerprint.
ParamFp(c) == Parse(cmd[c].param).obj

RECURSIVE ValidTargets(_)
ValidTargets(blob) ==
    IF blob = <<>> THEN <<>>
    ELSE LET t == Head(blob).value
             ok == /\ Parses(t)
                   /\ Parse(t).js = "object"
                   /\ {"name", "sha", "data"} \subseteq DOMAIN Parse(t).obj
         IN  (IF ok THEN <<Parse(t).obj>> ELSE <<>>) \o ValidTargets(Tail(blob))

\* C5: a read of the targets returns exactly the stored entries that parse as JSON and
\* have name, sha and data, in order; the other entries are skipped and do not stop the
\* read; getTarget returns the first of them that has the name asked for, if any.
C5_LenientRead ==
    \A c \in Clients :
        /\ cmd[c].kind = "list" => cmd[c].result = ValidTargets(cmd[c].snap)
        /\ cmd[c].kind = "get" =>
              LET hits == SelectSeq(ValidTargets(cmd[c].snap),
                                    LAMBDA x : x.name = cmd[c].fp[1].name)
              IN  cmd[c].result = IF hits = <<>> THEN <<>> ELSE <<hits[1]>>

\* The blob [{name: "a", sha, data}, {garbage: true}] was read: one target, "a".
C5_Witness ==
    \E c \in Clients :
        /\ cmd[c].kind = "list"
        /\ Len(cmd[c].snap) = 2
        /\ cmd[c].snap[1].value = Stringify(Obj(MkFP("a", "1.0.0")))
        /\ cmd[c].snap[2].value = Stringify(Obj([garbage |-> TRUE]))
        /\ Len(cmd[c].result) = 1
        /\ cmd[c].result[1].name = "a"

(***************************************************************************)
(* Properties of the default target-compliance handler.                    *)
(***************************************************************************)
\* The valid targets stored under a name.
StoredTargets(st, n) == SelectSeq(ValidTargets(st), LAMBDA x : x.name = n)

\* C7: when no target is stored for the name of an incoming fingerprint, the vote of
\* the handler on it is Abstain or For, never Against, and the name is not among the
\* failed fingerprints of the ballot.
C7_FirstSeenNeverFails ==
    /\ \A i \in 1..Len(votes) :
          StoredTargets(store, votes[i].obj.fingerprint.name) = <<>>
              => Decision(votes[i]) \in {"Abstain", "For"}
    /\ Tallied =>
          \A n \in Names : StoredTargets(store, n) = <<>> => ~InSeq(n, ballot[1].failedFps)

\* A tallied push with a vote on a fingerprint whose name has an entry in the blob that
\* is no target, and a failed vote on another fingerprint.
C7_Witness ==
    /\ Tallied
    /\ ballot[1].failed
    /\ \E i \in 1..Len(votes) :
          /\ StoredTargets(store, votes[i].obj.fingerprint.name) = <<>>
          /\ \E j \in 1..Len(store) : store[j].name = votes[i].obj.fingerprint.name
          /\ Decision(votes[i]) = "Abstain"

RECURSIVE AgainstVotes(_)
AgainstVotes(vl) ==
    IF vl = <<>> THEN <<>>
    ELSE IF Decision(Head(vl)) = "Against" THEN <<Head(vl).obj>> \o AgainstVotes(Tail(vl))
    ELSE AgainstVotes(Tail(vl))

\* C11: failedVotes is exactly the subsequence of the votes whose decision is Against,
\* in the order of the input, no vote dropped and none duplicated.
C11_FailedVotesSubsequence ==
    Tallied => ballot[1].failedVotes = AgainstVotes(votes)

\* Two equal Against votes with a For vote between them: both are in failedVotes.
C11_Witness ==
    /\ Tallied
    /\ Len(votes) = 3
    /\ Decision(votes[1]) = "Against"
    /\ Decision(votes[2]) = "For"
    /\ votes[3] = votes[1]
    /\ ballot[1].failedVotes = <<votes[1].obj, votes[3].obj>>

(***************************************************************************)
(* Properties of the target store, continued.                              *)
(***************************************************************************)
\* The collaborator's DeleteTargetFingerprint has completed, and no other write was
\* applied between its read and now.
DeletedAlone(c) ==
    /\ cmd[c].kind = "delete"
    /\ cmd[c].pc = "done"
    /\ WroteAt(c) = Len(writeSeq)
    /\ cmd[c].readAt = Len(writeSeq) - 1

TransportFailed(c) == cmd[c].error # <<>>

\* C13 as stated: when a query or a mutate of an operation rejects, the operation is
\* rejected with that same error, and no call is made again: at most one query and
\* one mutate per operation.
C13_FailurePropagatesUnmodified ==
    \A c \in Clients :
        /\ TransportFailed(c) => cmd[c].pc = "failed" /\ cmd[c].rejected = cmd[c].error
        /\ cmd[c].queries <= 1
        /\ cmd[c].mutates <= 1

\* What holds of C13: no call is made again; a listener that awaits the query itself
\* (the two list commands) is rejected with the error of the transport; an operation
\* behind the promise bridge is never rejected with that error.
C13_NoRetryAndAwaitedPropagates ==
    \A c \in Clients :
        /\ cmd[c].queries <= 1
        /\ cmd[c].mutates <= 1
        /\ (TransportFailed(c) /\ cmd[c].kind \in {"list", "get"})
              => cmd[c].pc = "failed" /\ cmd[c].rejected = cmd[c].error
        /\ (TransportFailed(c) /\ cmd[c].kind \in {"set", "delete"})
              => cmd[c].rejected # cmd[c].error

\* SetTargetFingerprint ended with success although its query had rejected, and
\* nothing was written.
C13_Witness ==
    \E c \in Clients :
        /\ cmd[c].kind = "set"
        /\ cmd[c].pc = "done"
        /\ TransportFailed(c)
        /\ cmd[c].queries = 1
        /\ cmd[c].mutates = 0
        /\ writeSeq = <<>>

(***************************************************************************)
(* Properties of the dispatch.                                             *)
(***************************************************************************)
\* All dispatch candidates of the push were gone through.
Dispatched == dpos = Len(Work)

\* How many times the function was invoked on fingerprint i through the path.
Invocations(i, path, f) ==
    Cardinality({k \in 1..Len(calls) : calls[k] = [i |-> i, path |-> path, fn |-> f.fn]})

\* The handler's selector takes fingerprint i.
Matches(h, i) == diffs[i].to.name \in h.selector

\* C14: a diffHandler is invoked only on a fingerprint its selector takes whose prior
\* fingerprint exists and differs; once the push is dispatched, on every fingerprint
\* its selector takes a registration's handler was invoked once whatever the prior
\* fingerprint, its diffHandler once exactly when the prior exists and differs, and a
\* registration with both was invoked through both.
C14_DispatchPaths ==
    /\ \A k \in 1..Len(calls) :
          calls[k].path = "diffAction" =>
              /\ Changed(diffs[calls[k].i])
              /\ \E j \in 1..Len(handlers) :
                    /\ "diffHandler" \in DOMAIN handlers[j]
                    /\ handlers[j].diffHandler.fn = calls[k].fn
                    /\ Matches(handlers[j], calls[k].i)
    /\ Dispatched =>
          \A i \in 1..Len(diffs), j \in 1..Len(handlers) :
              Matches(handlers[j], i) =>
                  /\ "handler" \in DOMAIN handlers[j] =>
                        Invocations(i, "action", handlers[j].handler) = 1
                  /\ "diffHandler" \in DOMAIN handlers[j] =>
                        Invocations(i, "diffAction", handlers[j].diffHandler)
                            = IF Changed(diffs[i]) THEN 1 ELSE 0

\* A registration with both functions met a changed and an unchanged fingerprint of its
\* name: its handler ran on both, its diffHandler on the changed one only.
C14_Witness ==
    /\ Dispatched
    /\ \E j \in 1..Len(handlers) : handlers[j] = BothPathsHandler
    /\ Len(diffs) = 2
    /\ diffs[1].to.name = "a" /\ Changed(diffs[1])
    /\ diffs[2].to.name = "a" /\ ~Changed(diffs[2])
    /\ Invocations(1, "diffAction", BothPathsHandler.diffHandler) = 1
    /\ Invocations(1, "action", BothPathsHandler.handler) = 1
    /\ Invocations(2, "diffAction", BothPathsHandler.diffHandler) = 0
    /\ Invocations(2, "action", BothPathsHandler.handler) = 1

\* The functions that are to be invoked on fingerprint i: the handler of every
\* registration whose selector takes it and, when the prior fingerprint exists and
\* differs, the diffHandler of every such registration.
Expected(i) ==
    {handlers[j].handler.fn :
        j \in {x \in 1..Len(handlers) : Matches(handlers[x], i) /\ "handler" \in DOMAIN handlers[x]}}
    \cup {handlers[j].diffHandler.fn :
        j \in {x \in 1..Len(handlers) :
                  /\ Matches(handlers[x], i)
                  /\ "diffHandler" \in DOMAIN handlers[x]
                  /\ Changed(diffs[i])}}

\* The calls made on fingerprint i.
CallsOn(i) == {k \in 1..Len(calls) : calls[k].i = i}

\* C15: once the push is dispatched, on every fingerprint every registration whose
\* selector takes it was invoked, each function once, whatever the other handlers
\* voted on this or another fingerprint; no other function was invoked on it.
C15_AllMatchingHandlersVote ==
    Dispatched =>
        \A i \in 1..Len(diffs) :
            /\ {calls[k].fn : k \in CallsOn(i)} = Expected(i)
            /\ Cardinality(CallsOn(i)) = Cardinality(Expected(i))

\* Four registrations, a changed "a" and a "b": all three that take "a" were invoked on
\* it, the later ones after an Against vote of the first; both that take "b" on "b".
C15_Witness ==
    /\ Dispatched
    /\ handlers = AllHandlers
    /\ Len(diffs) = 2
    /\ diffs[1].to.name = "a" /\ Changed(diffs[1])
    /\ diffs[2].to.name = "b"
    /\ Decision(votes[1]) = "Against"
    /\ {calls[k].fn : k \in CallsOn(1)}
           = {"checkFingerprintTarget", "setNewTargetFingerprint", "simpleDiff", "simpleCheck"}
    /\ {calls[k].fn : k \in CallsOn(2)} = {"checkFingerprintTarget", "failing"}

\* How many times the ballot of registration j was invoked.
BallotCalls(j) == Cardinality({k \in 1..Len(ballots) : ballots[k].h = j})

FailureAmongVotes ==
    \E k \in 1..Len(votes) : IsMap(votes[k]) /\ "failure" \in DOMAIN votes[k].obj

\* The push was evaluated to its end: the ballots of all registrations were gone through.
Evaluated == runState = "uploaded" /\ Dispatched /\ bpos = Len(handlers)

Contribution(o) ==
    IF o.kind = "one" THEN <<o.fp>> ELSE IF o.kind = "many" THEN o.fps ELSE <<>>

\* How many fingerprints the first e extractors contributed.
RECURSIVE Offset(_, _)
Offset(os, e) == IF e = 0 THEN 0 ELSE Offset(os, e - 1) + Len(Contribution(os[e]))

\* C18: the returned list is the concatenation, in registration order, of what each
\* extractor that succeeded resolved to, each extractor's fingerprints in the order it
\* gave them; nothing is left out, so fingerprints of one name all appear.
C18_RegistrationOrderNoDedup ==
    runState = "returned" =>
        /\ Len(fps) = Offset(outcomes, Len(outcomes))
        /\ \A e \in 1..Len(outcomes) :
              \A k \in 1..Len(Contribution(outcomes[e])) :
                  fps[Offset(outcomes, e - 1) + k] = Contribution(outcomes[e])[k]

\* The first extractor returned [a 1.3.0, a 1.0.0], the second a 1.0.0 again: the run
\* returned the three in that order.
C18_Witness ==
    /\ runState = "returned"
    /\ Len(outcomes) = 2
    /\ outcomes[1] = ReturnsMany(<<MkFP("a", "1.3.0"), MkFP("a", "1.0.0")>>)
    /\ outcomes[2] = ReturnsOne(MkFP("a", "1.0.0"))
    /\ fps = <<MkFP("a", "1.3.0"), MkFP("a", "1.0.0"), MkFP("a", "1.0.0")>>

\* C19: at every point of the run each element of fps is a fingerprint, never a nested
\* array and never an absent value; an extractor that resolved to one fingerprint added
\* one element, one that resolved to an array added as many as the array holds (none for
\* the empty array), one that resolved to nothing added none.
C19_Flattened ==
    /\ \A i \in 1..Len(fps) : fps[i] \in ExtractableFPs
    /\ runState \in {"running", "returned"} =>
          /\ Len(fps) = Offset(outcomes, Len(outcomes))
          /\ \A e \in 1..Len(outcomes) :
                 Offset(outcomes, e) - Offset(outcomes, e - 1)
                     = CASE outcomes[e].kind = "one" -> 1
                         [] outcomes[e].kind = "many" -> Len(outcomes[e].fps)
                         [] OTHER -> 0

\* An empty array, nothing, one fingerprint and an array of two: three elements.
C19_Witness ==
    /\ runState = "returned"
    /\ Len(outcomes) = 3
    /\ \E e \in 1..3 : outcomes[e] = ReturnsMany(<<>>) \/ outcomes[e] = ReturnsNothing
    /\ \E e \in 1..3 : outcomes[e].kind = "one"
    /\ \E e \in 1..3 : outcomes[e].kind = "many" /\ Len(outcomes[e].fps) = 2
    /\ Len(fps) = 3

(***************************************************************************)
(* Properties of the diff engine.                                         *)
(***************************************************************************)
\* A fingerprint is compared against itself.
SameFingerprint == prior # <<>> /\ incoming = prior

\* A list of the Diff's data that lists nothing: nil or without element.
NoElements(o) == o = <<>> \/ o[1] = <<>>

\* What renderDiff returns when neither list has an element.
NothingReported ==
    LET trailer == "\n" \o Owner \o "/" \o Repo \o " a"
    IN  {Nil, "removed " \o trailer, "added: " \o trailer, "removed , added: " \o trailer}

\* C20: comparing a fingerprint X against itself yields an empty added and an
\* empty removed: the diff of the two data tuples has no element on either
\* side, the data of the Diff lists nothing, and renderDiff names no element
\* as removed or added.
C20_DiffIdempotence ==
    SameFingerprint =>
        /\ diff(prior, incoming) = [removed |-> <<>>, added |-> <<>>]
        /\ delta # <<>> => NoElements(delta[1].from) /\ NoElements(delta[1].to)
        /\ rendered # <<>> => rendered[1] \in NothingReported

C20_Witness ==
    /\ SameFingerprint
    /\ Len(prior[1].data) >= 2
    /\ rendered # <<>>
    /\ rendered[1] # Nil

\* The texts that report exactly the elements rem as removed and the elements
\* add as added, for the fingerprint named name: a side without element is
\* left out or listed empty, and nothing at all may be said when both are.
ReportsOf(rem, add, name) ==
    LET removedTexts == IF rem = <<>> THEN {"", "removed "}
                        ELSE {"removed " \o formatList(rem)}
        addedTexts == IF add = <<>> THEN {"", "added: "}
                      ELSE {"added: " \o formatList(add)}
        trailer == "\n" \o Owner \o "/" \o Repo \o " " \o name
    IN  {r \o (IF r # "" /\ a # "" THEN ", " ELSE "") \o a \o trailer :
            <<r, a>> \in {x \in removedTexts \X addedTexts : x[1] # "" \/ x[2] # ""}}
        \cup (IF rem = <<>> /\ add = <<>> THEN {Nil} ELSE {})

\* The elements a list of the Diff's data holds.
Listed(o) == IF o = <<>> THEN <<>> ELSE o[1]

\* The comparison found rem removed and add added, and both are what is reported.
Reported(rem, add, name) ==
    /\ diff(prior, incoming) = [removed |-> rem, added |-> add]
    /\ delta # <<>> => Listed(delta[1].from) = rem /\ Listed(delta[1].to) = add
    /\ rendered # <<>> => rendered[1] \in ReportsOf(rem, add, name)

\* C21: when the target is absent every element of the incoming data is
\* reported as added and nothing as removed; when the incoming fingerprint is
\* absent every element of the target's data is reported as removed and
\* nothing as added; when both are absent nothing is reported.
C21_DiffEdgeCases ==
    /\ prior = <<>> /\ incoming # <<>> => Reported(<<>>, incoming[1].data, "null")
    /\ prior # <<>> /\ incoming = <<>> => Reported(prior[1].data, <<>>, prior[1].name)
    /\ prior = <<>> /\ incoming = <<>> => Reported(<<>>, <<>>, "null")

C21_Witness ==
    /\ prior = <<>>
    /\ incoming # <<>>
    /\ Len(incoming[1].data) >= 2
    /\ delta # <<>>
    /\ delta[1].from = <<>>
    /\ rendered # <<>>

InOrder(n) == [i \in 1..n |-> i]

\* C23: when every extract that is called settles, fingerprintRunner returns,
\* having called each registered extractor exactly once, in registration
\* order, each only after the one before it settled.
C23_ExtractionTerminates ==
    /\ <>(runState = "returned" /\ started = InOrder(nExtractors)
            /\ Len(outcomes) = nExtractors)
    /\ [](/\ started = InOrder(Len(started))
          /\ Len(started) <= nExtractors
          /\ Len(started) - Len(outcomes) = (IF pending = 0 THEN 0 ELSE 1))

\* A run of three extractors returned; one of them threw.
C23_Witness ==
    /\ runState = "returned"
    /\ nExtractors >= 3
    /\ started = InOrder(nExtractors)
    /\ \E i \in 1..Len(outcomes) : outcomes[i] = Throws
    /\ \E i \in 1..Len(outcomes) : outcomes[i] # Throws

(***************************************************************************)
(* Properties of pusher.                                                   *)
(***************************************************************************)
\* The registration defines apply and its selector takes the fingerprint.
Due(i) == pregs[i].apply # <<>> /\ pregs[i].selects

\* The registrations among the first n that are due, in registration order.
DueAmong(n) == SelectSeq([i \in 1..n |-> i], Due)

ApplyFalsy(i) == pregs[i].apply[1] \in {"false", "undefined"}

ApplyThrows(i) == pregs[i].apply[1] = "throws"

\* pusher is over: it returned the project or it was rejected.
PusherOver == pstate \in {"done", "rejected"}

NilOrFalse == {JsNull, Undefined, JsFalse}

\* The value from-promise is to put for a promise.
PutFor(pr) ==
    IF pr.state = "rejected" THEN Obj([failure |-> pr.reason])
    ELSE IF pr.value \in NilOrFalse THEN Done
    ELSE pr.value

\* C25: from-promise puts exactly one value on its channel and then closes it:
\* the result if truthy, :done for a falsy result, {:failure error} for a
\* rejection; chan->promise settles exactly once, resolving with a truthy
\* value taken from the channel and rejecting with a falsy one or with the
\* nil of a channel closed empty; so a rejected promise passed through both
\* arrives as a resolution with {:failure error}.
C25_BridgeTurnsOutcomesIntoValues ==
    /\ Len(bputs) <= 1
    /\ bclosed => Len(bputs) = 1
    /\ bputs # <<>> => bputs[1] = PutFor(bpromise) /\ bputs[1] \notin NilOrFalse
    /\ Len(bsettled) <= 1
    /\ bsettled # <<>> =>
          LET v == TakeFrom(bsource)
          IN  bsettled[1] = (IF v \in NilOrFalse THEN Rejected(v) ELSE Fulfilled(v))
    /\ (bsettled # <<>> /\ bsource = BridgeChannel /\ bpromise.state = "rejected") =>
          bsettled[1] = Fulfilled(Obj([failure |-> bpromise.reason]))

\* A rejected promise went through from-promise and chan->promise.
C25_Witness ==
    /\ bpromise = Rejected(TransportError)
    /\ bsource = BridgeChannel
    /\ bclosed
    /\ bsettled = <<Fulfilled(Obj([failure |-> TransportError]))>>

(***************************************************************************)
(* Properties of the ballot: consistency of its fields.                    *)
(***************************************************************************)
\* The vote is a record that has a decision.
HasDecision(v) == IsMap(v) /\ "decision" \in DOMAIN v.obj

\* C26: the fields of voteResults are consistent for every vote list: votes
\* that are no records or have no decision change nothing, failedFps and
\* failedVotes have the same length with failedFps[i] the name of
\* failedVotes[i], and failed is true exactly when failedVotes is not empty.
C26_BallotFieldsConsistent ==
    Tallied =>
        LET b == ballot[1]
        IN  /\ b = voteResults(SelectSeq(votes, HasDecision))
            /\ Len(b.failedFps) = Len(b.failedVotes)
            /\ \A i \in 1..Len(b.failedVotes) : b.failedFps[i] = Get(b.failedVotes[i], "name")
            /\ b.failed <=> b.failedVotes # <<>>

\* A tallied list with a vote that is no record, one without a decision, and an
\* Against vote after them.
C26_Witness ==
    /\ Tallied
    /\ Len(votes) = 3
    /\ \E i \in 1..2 : votes[i] = Undefined
    /\ \E i \in 1..2 : votes[i] = setNewTargetFingerprint
    /\ Decision(votes[3]) = "Against"
    /\ ballot[1].failed
    /\ Len(ballot[1].failedVotes) = 1

(***************************************************************************)
(* Properties of the target-update commands.                               *)
(***************************************************************************)
TargetUpdates == {"set", "update", "latest"}

\* The collaborator's mutate was applied to the store.
WriteApplied(c) == \E i \in 1..Len(writeSeq) : writeSeq[i] = c

C28_LatestMasterFailure ==
    /\ [](\A c \in Clients :
            cmd[c].kind = "latest" =>
                /\ cmd[c].branchParam = <<>> => cmd[c].branch = "master"
                /\ cmd[c].pc = "failure" =>
                      /\ cmd[c].queries = 0
                      /\ cmd[c].mutates = 0
                      /\ cmd[c].prompts = 0
                      /\ cmd[c].rejected = <<>>
                      /\ ~WriteApplied(c))
    /\ [][\A c \in Clients :
            (cmd[c].kind = "latest" /\ cmd'[c].pc = "failure") =>
                store' = store /\ writeSeq' = writeSeq]_vars

\* No branch was given, master was looked at, the sha there was empty; a target
\* was stored and still is.
C28_Witness ==
    /\ cmd[Caller].kind = "latest"
    /\ cmd[Caller].branchParam = <<>>
    /\ cmd[Caller].branch = "master"
    /\ cmd[Caller].pc = "failure"
    /\ store # <<>>
    /\ writeSeq = <<>>

(***************************************************************************)
(* The scope of the target handler.                                        *)
(***************************************************************************)
\* The fingerprints of the push the handler was dispatched on so far that some
\* registration selects.
InScopeSoFar == {i \in 1..handled : pushFps[i].name \in registrations}

\* C29: the target handler of fingerprintImpactHandler votes on a fingerprint
\* exactly when some registration's selector takes it: each dispatched fingerprint
\* that a registration selects has its vote, the votes are as many as those
\* fingerprints, and no vote, Against or other, is on a fingerprint that no
\* registration selects, whatever target the store holds for its name.
C29_ScopeIsSomeSelector ==
    /\ Len(votes) = Cardinality(InScopeSoFar)
    /\ \A i \in InScopeSoFar :
          \E j \in 1..Len(votes) : votes[j].obj.fingerprint = pushFps[i]
    /\ \A j \in 1..Len(votes) : votes[j].obj.fingerprint.name \in registrations

\* The push holds a 1.3.0 and b 1.3.0, only a is registered, and the store holds
\* targets of another sha for both names: the one vote is the Against vote on a.
C29_Witness ==
    /\ handled = Len(pushFps)
    /\ pushFps = <<MkFP("a", "1.3.0"), MkFP("b", "1.3.0")>>
    /\ registrations = {"a"}
    /\ StoredTargets(store, "b") # <<>>
    /\ StoredTargets(store, "b")[1].sha # MkFP("b", "1.3.0").sha
    /\ Len(votes) = 1
    /\ Decision(votes[1]) = "Against"
    /\ VoteName(votes[1]) = "a"

(***************************************************************************)
(* The message of the default messageMaker.                                *)
(***************************************************************************)
\* The attachments of the sent message that are of one kind, in their order.
AttachmentsOf(kind) ==
    LET is(a) == a.kind = kind IN SelectSeq(message[1], is)

\* The names with a comma, and nothing else, between each two of them.
RECURSIVE CommaList(_)
CommaList(xs) ==
    IF xs = <<>> THEN ""
    ELSE IF Len(xs) = 1 THEN xs[1]
    ELSE CommaList(SubSeq(xs, 1, Len(xs) - 1)) \o "," \o xs[Len(xs)]

\* C30: the message of the default messageMaker has one attachment for each
\* failed vote, in the order of failedVotes, each offering to apply the fpTarget
\* of its vote; it has the Apply All attachment, once and as its last attachment,
\* exactly when more than one vote failed, and the fingerprints of Apply All are
\* the names of the fpTargets of the failed votes, in that order, comma-joined.
C30_MessageOfFailedVotes ==
    message # <<>> =>
        LET failedVotes == ballot[1].failedVotes
            each == AttachmentsOf("oneFingerprint")
            all == AttachmentsOf("applyAll")
        IN  /\ Len(each) = Len(failedVotes)
            /\ \A i \in 1..Len(each) :
                  /\ each[i].fingerprint = failedVotes[i].fpTarget.name
                  /\ each[i].name = failedVotes[i].fingerprint.name
                  /\ each[i].sha = failedVotes[i].fingerprint.sha
            /\ Len(all) = (IF Len(failedVotes) > 1 THEN 1 ELSE 0)
            /\ Len(message[1]) = 1 + Len(each) + Len(all)
            /\ all # <<>> =>
                  /\ message[1][Len(message[1])] = all[1]
                  /\ all[1].fingerprints =
                        CommaList([i \in 1..Len(failedVotes) |-> failedVotes[i].fpTarget.name])

\* Three votes, Against on b, For on a, Against on a: the message has the header,
\* the attachment on b, the attachment on a, and Apply All with "b,a".
C30_Witness ==
    /\ message # <<>>
    /\ Len(votes) = 3
    /\ Decision(votes[1]) = "Against" /\ VoteName(votes[1]) = "b"
    /\ Decision(votes[2]) = "For"
    /\ Decision(votes[3]) = "Against" /\ VoteName(votes[3]) = "a"
    /\ Len(message[1]) = 4
    /\ message[1][2].fingerprint = "b"
    /\ message[1][3].fingerprint = "a"
    /\ message[1][4].kind = "applyAll"
    /\ message[1][4].fingerprints = "b,a"

====
